---- MODULE Spec2Model ----
(***************************************************************************)
(* State-machine model of the SNMP -> gNMI collectors of isp-monitor.      *)
(* Every script of src/configs is a program of its own; each gets its own  *)
(* variables, its own actions and its own specification:                   *)
(*                                                                         *)
(*   SpecV3     ifaces-stats-snmp-v3.py     SNMPLeafMonitor                *)
(*   SpecMulti  if-stats-snmp-multi.py      EfficientSNMPCollector         *)
(*   SpecV6     ifaces-stats-snmp-ipv6.py   AristaIPv6Monitor              *)
(*   SpecOpt    if-stats-snmp-get-optimizado.py  EfficientSNMPCollector    *)
(*   SpecDual   ifaces-stats-dual-snmp.py   SNMPDualMonitor                *)
(*   SpecV2     ifaces-stats-snmp-v2.py     SNMPMonitorGNMICompat          *)
(*   SpecGet    if-stats-snmp-get.py        GNMIFormatCollector            *)
(*                                                                         *)
(* SpecOptLong is SpecOpt with, next to the start, the state after 99      *)
(* successful cycles as an initial state; SpecResults applies              *)
(* process_results of the optimizado collector to result lists; SpecPcap   *)
(* is main of capturas/analyze-pcap.py on the output of its tshark runs.   *)
(*                                                                         *)
(* SpecOnChange (v3, multi, ipv6), SpecTotals (optimizado, multi),         *)
(* SpecLastUpdate (dual, v3, ipv6), SpecGrouped (dual, v2), SpecBatched    *)
(* (dual, optimizado) and SpecPerOid (v3, dual) are for properties stated  *)
(* of several scripts: each of their behaviours is a run of one script,    *)
(* told by the variable program.                                           *)
(*                                                                         *)
(* The SNMP agent is the environment: each polling cycle draws the agent's *)
(* answers from a bounded set.  Python dicts are functions whose DOMAIN is *)
(* the key set; the insertion order that the code iterates in is kept as a *)
(* sequence of keys next to it.  Lists are sequences.                      *)
(***************************************************************************)
EXTENDS Integers, Sequences, FiniteSets, TLC

\* --------------------------------------------------------------- bounds
\* Counters reported by the agent range over 0..MaxCounter.
MaxCounter == 1
\* Wall-clock readings (ts_ns) range over 1..MaxTs.
MaxTs == 1

\* Completed cycles per collector are counted up to MaxCycles.
MaxCycles == 3

\* The counter of if-stats-snmp-get.py is followed up to GtMaxCounter.
GtMaxCounter == 10

\* The clock if-stats-snmp-get.py reads ranges over 1..GtMaxNow.
GtMaxNow == 2

\* analyze-pcap.py: a capture holds up to ApMaxFrames matching frames, of
\* up to ApMaxBytes bytes together, at relative times 0..ApMaxTime.
ApMaxFrames == 2
ApMaxBytes == 3
ApMaxTime == 2

Counters == 0..MaxCounter
\* Counter readings five and six orders of magnitude above the threshold of
\* the single-request collector: a base value, one 0.05% and one 2% above.
Samples == {1000000, 1000500, 1020000}
\* easysnmp hands every value over as a string: str of the counter.
CounterStr == {ToString(n) : n \in Counters}

\* Python's None in a dict of strings.
None == "<None>"

\* Range of a sequence.
Range(s) == {s[i] : i \in DOMAIN s}

\* One answer of session.get(oid): the call raises, or returns an
\* SNMPVariable whose .value is a string.
Raised == [raised |-> TRUE, value |-> ""]
Answer(s) == [raised |-> FALSE, value |-> s]
\* The answers of an agent that does not serve an OID, and a transport
\* failure: all the shapes the collectors test for.
NoValue == {Raised, Answer(""), Answer("NOSUCHINSTANCE"), Answer("NOSUCHOBJECT")}

\* The ISO-8601 string of a clock reading.
IsoTime(now) == "T" \o ToString(now)

\* ---------------------------------------------------------------- state

VARIABLES
  program,          \* which script of src/configs this behaviour runs
  v3_if_name,       \* SNMPLeafMonitor.if_name
  v3_prev_values,   \* SNMPLeafMonitor.prev_values
  v3_updates,       \* value returned by the last generate_updates call
  v3_current,       \* history: what collect_current returned in the last call
  v3_polled_before, \* history: what it returned in the call before that
  v3_last_emitted,  \* history: per leaf, the value last put in an update
  v3_last_emitted_before, \* history: v3_last_emitted as the last call found it
  v3_ts,            \* history: ts_ns of the last call
  v3_all_raised     \* history: every session.get of the last call raised

varsV3 == << v3_if_name, v3_prev_values, v3_updates, v3_current,
             v3_polled_before, v3_last_emitted, v3_last_emitted_before,
             v3_ts, v3_all_raised >>

VARIABLES
  mt_pc,              \* main: index in collectors of the next run_cycle;
                      \* 0 once an exception has ended the process
  mt_previous_values, \* per collector: self.previous_values
  mt_cycle_count,     \* per collector: self.cycle_count
  mt_lines,           \* what the last generate_gnmi call returned
  mt_data,            \* history: per collector, what its last collect returned
  mt_last,            \* history: the collector of the last run_cycle
  mt_before,          \* history: what the collect before that one, of the
                      \* same collector, returned
  mt_emitted          \* history: per collector, the value of the last
                      \* update written for each cache key

varsMulti == << mt_pc, mt_previous_values, mt_cycle_count, mt_lines, mt_data,
                mt_last, mt_before,
                mt_emitted >>

VARIABLES
  v6_prev_state,     \* AristaIPv6Monitor.prev_state
  v6_updates,        \* value returned by the last generate_updates call
  v6_answers,        \* history: what the agent answered in the last call
  v6_current,        \* history: per interface, what collect_interface
                     \* returned in the last call
  v6_polled_before   \* history: what it returned in the call before that

varsV6 == << v6_prev_state, v6_updates, v6_answers, v6_current,
             v6_polled_before >>

VARIABLES
  opt_pc,              \* run_continuous: "start" before connect, "loop" in
                       \* the while loop, "done" once it has returned
  opt_previous_values, \* EfficientSNMPCollector.previous_values
  opt_cycle_count,     \* EfficientSNMPCollector.cycle_count
  opt_lines,           \* what the last run_efficient_cycle handed to
                       \* save_with_rotation (nothing when it had no data)
  opt_data,            \* history: what the last collect_single_request returned
  opt_before           \* history: previous_values as that cycle found it

varsOpt == << opt_pc, opt_previous_values, opt_cycle_count, opt_lines,
              opt_data, opt_before >>

\* ifaces-stats-dual-snmp.py: the two SNMPInterfaceMonitor objects of
\* SNMPDualMonitor, indexed by interface name.
VARIABLES
  du_prev_counters,    \* if_name -> SNMPInterfaceMonitor.prev_counters
  du_updates,          \* if_name -> the list the last generate_updates call
                       \* returned (empty when it did not return)
  du_written,          \* whether the last iteration reached the write loop
  du_ts,               \* ts_ns of the last iteration
  du_answers,          \* history: if_name -> what the agent answered
  du_counters,         \* history: if_name -> what collect_counters returned
  du_before,           \* history: prev_counters as that iteration found it
  du_pc,               \* where run is: "loop", or "done" after the break
  du_passes,           \* history: the passes of the while loop begun so
                       \* far, modulo 2
  du_prev_raised       \* history: whether the pass before the latest raised

varsDual == << du_prev_counters, du_updates, du_written, du_ts, du_answers,
               du_counters, du_before, du_pc, du_passes, du_prev_raised >>

\* ifaces-stats-snmp-v2.py: SNMPMonitorGNMICompat (Ethernet2 only).
VARIABLES
  v2_prev_counters,    \* SNMPMonitorGNMICompat.prev_counters
  v2_written,          \* the objects the last iteration wrote, in order
  v2_ts,               \* ts_ns of the last iteration
  v2_answers,          \* history: what the agent answered
  v2_counters,         \* history: what collect_counters returned
  v2_before,           \* history: prev_counters as that iteration found it
  v2_pc,               \* where run is: "loop", or "done" after the break
  v2_passes,           \* history: the passes of the while loop begun so
                       \* far, modulo 2
  v2_prev_raised       \* history: whether the pass before the latest raised

varsV2 == << v2_prev_counters, v2_written, v2_ts, v2_answers, v2_counters,
             v2_before, v2_pc, v2_passes, v2_prev_raised >>

\* if-stats-snmp-get.py: GNMIFormatCollector.
VARIABLES
  gt_pc,               \* where run_continuous is: "start", "loop" or "done"
  gt_counter,          \* GNMIFormatCollector.counter
  gt_last_values,      \* GNMIFormatCollector.last_values
  gt_objects,          \* what the last cycle handed to append_to_file
  gt_data,             \* history: what the last collect_snmp_data returned
  gt_now,              \* the last reading of the wall clock
  gt_cycles,           \* history: the cycles that collected data so far
  gt_stamps,           \* history: what get_gnmi_timestamps returned in the
                       \* last cycle, call by call
  gt_stamp_before      \* history: the timestamp of the last call before
                       \* that cycle, 0 when there was none

varsGet == << gt_pc, gt_counter, gt_last_values, gt_objects, gt_data, gt_now,
              gt_cycles, gt_stamps, gt_stamp_before >>

\* if-stats-snmp-get-optimizado.py: process_results applied to a result list.
VARIABLES
  pr_results,          \* the results handed to process_results
  pr_data              \* what collect_single_request returned for them

varsResults == << pr_results, pr_data >>

\* capturas/analyze-pcap.py: one run of main.
VARIABLES
  ap_pc,               \* "start", "returned", or "raised" when an exception
                       \* left main
  ap_snmp,             \* what analyze_snmp returned
  ap_gnmi,             \* what analyze_gnmi returned
  ap_stdout,           \* what main and print_table printed, part by part
  ap_csv               \* the rows save_csv wrote under the header

varsPcap == << ap_pc, ap_snmp, ap_gnmi, ap_stdout, ap_csv >>

\* What a step of one script leaves alone: the state of every other script.
othersV3 ==
  << varsMulti, varsV6, varsOpt, varsDual, varsV2, varsGet, varsResults, varsPcap >>
othersMulti ==
  << varsV3, varsV6, varsOpt, varsDual, varsV2, varsGet, varsResults, varsPcap >>
othersV6 ==
  << varsV3, varsMulti, varsOpt, varsDual, varsV2, varsGet, varsResults, varsPcap >>
othersOpt ==
  << varsV3, varsMulti, varsV6, varsDual, varsV2, varsGet, varsResults, varsPcap >>
othersDual ==
  << varsV3, varsMulti, varsV6, varsOpt, varsV2, varsGet, varsResults, varsPcap >>
othersV2 ==
  << varsV3, varsMulti, varsV6, varsOpt, varsDual, varsGet, varsResults, varsPcap >>
othersGet ==
  << varsV3, varsMulti, varsV6, varsOpt, varsDual, varsV2, varsResults, varsPcap >>
othersResults ==
  << varsV3, varsMulti, varsV6, varsOpt, varsDual, varsV2, varsGet, varsPcap >>
othersPcap ==
  << varsV3, varsMulti, varsV6, varsOpt, varsDual, varsV2, varsGet,
     varsResults >>

\* ======================================================================
\* ifaces-stats-snmp-v3.py : SNMPLeafMonitor
\* ======================================================================

\* OID_MAP keys in the order of the dict literal (the order of
\* OID_MAP.keys(), which is the order in which leaves are polled and emitted).
V3_OID_MAP ==
  << "in-octets", "in-unicast-pkts", "in-multicast-pkts", "in-broadcast-pkts",
     "out-octets", "out-unicast-pkts", "out-multicast-pkts",
     "out-broadcast-pkts", "in-discards", "in-errors", "out-discards",
     "out-errors", "carrier-transitions" >>

V3Leaves == Range(V3_OID_MAP)

\* The monitors that SNMPPureOnChangeMonitor constructs.
V3_IF_NAMES == {"Ethernet1", "Ethernet2"}

\* Leaves whose counters move on the modelled device: one of each class that
\* should_emit tells apart.  Every other OID is not served by the agent.
V3LiveLeaves == {"in-octets", "in-errors", "in-broadcast-pkts"}

\* get_counter: str(res.value) when the get succeeds with a usable value,
\* "0" otherwise (exception swallowed).
v3_get_counter(res) ==
  IF ~res.raised /\ res.value # ""
     /\ res.value \notin {"NOSUCHINSTANCE", "NOSUCHOBJECT", ""}
  THEN res.value
  ELSE "0"

\* collect_current: one get_counter per key of OID_MAP.
v3_collect_current(agent) == [k \in V3Leaves |-> v3_get_counter(agent[k])]

\* get_path and the last_path of generate_updates, tabulated once:
\* f"interfaces/interface[name={if_name}]/state/counters/{leaf}".
V3Paths ==
  [if_name \in V3_IF_NAMES |->
     [leaf \in V3Leaves \cup {"last-update"} |->
        "interfaces/interface[name=" \o if_name \o "]/state/counters/" \o leaf]]

v3_get_path(if_name, leaf) == V3Paths[if_name][leaf]

v3_should_emit(leaf, value) ==
  IF leaf \in {"in-discards", "out-discards", "in-errors", "out-errors"}
  THEN value # "0"
  ELSE IF leaf \in {"in-broadcast-pkts", "out-broadcast-pkts"}
       THEN value # "0"
       ELSE TRUE

\* Mutant: a first observation is emitted whatever should_emit says.
v3_emits_first_always(leaf, new_val, old_val) ==
  new_val # old_val /\ (old_val = None \/ v3_should_emit(leaf, new_val))

\* The test of line 92: the leaf goes into updates.
v3_emits(leaf, new_val, old_val) ==
  new_val # old_val /\ v3_should_emit(leaf, new_val)

\* One update object: {"Path": path, "values": {path: value}}.
Update(path, value) == [Path |-> path, values |-> [key |-> path, val |-> value]]

\* The updates list of generate_updates: last-update first, then one update
\* per emitted leaf, in OID_MAP order.
v3_build_updates(if_name, prev, current, ts_ns) ==
  LET last_path == V3Paths[if_name]["last-update"]
      emitted == SelectSeq(V3_OID_MAP,
                   LAMBDA leaf : v3_emits(leaf, current[leaf], prev[leaf]))
  IN  << Update(last_path, ts_ns) >> \o
      [i \in 1..Len(emitted) |->
         Update(v3_get_path(if_name, emitted[i]), current[emitted[i]])]

\* Mutant: the assignment of line 100 is missing.
v3_next_prev_values_stale(prev, current) == prev

\* Mutant: only the leaves that were emitted advance (state tracks the last
\* emitted value).
v3_next_prev_values_emitted_only(prev, current) ==
  [k \in V3Leaves |-> IF v3_emits(k, current[k], prev[k]) THEN current[k]
                      ELSE prev[k]]

\* Line 100: the state kept for the next call.
v3_next_prev_values(prev, current) == current

\* The agent's answers in one cycle.
V3Agent ==
  { [k \in V3Leaves |-> IF k \in V3LiveLeaves THEN Answer(live[k]) ELSE dead]
      : live \in [V3LiveLeaves -> CounterStr], dead \in NoValue }
  \cup { [k \in V3Leaves |-> dead] : dead \in NoValue }

\* What collect_current returns when every session.get raises.
V3Unreachable == v3_collect_current([k \in V3Leaves |-> Raised])

\* What collect_current can return in one cycle.
V3Polls == {v3_collect_current(agent) : agent \in V3Agent}

\* Leaves that have an update in a returned list.
V3LeafOfPath ==
  [p \in {V3Paths[i][l] : i \in V3_IF_NAMES, l \in V3Leaves} |->
     CHOOSE l \in V3Leaves : \E i \in V3_IF_NAMES : V3Paths[i][l] = p]

V3Emitted(if_name, updates) ==
  {V3LeafOfPath[updates[i].Path] :
     i \in {j \in DOMAIN updates :
              updates[j].Path # V3Paths[if_name]["last-update"]}}

V3NoneMap == [k \in V3Leaves |-> None]

\* SNMPLeafMonitor.__init__ (one of the two monitors of lines 119-120).
V3Start ==
  /\ v3_if_name \in V3_IF_NAMES
  /\ v3_prev_values = V3NoneMap
  /\ v3_updates = << >>
  /\ v3_current = V3NoneMap
  /\ v3_polled_before = V3NoneMap
  /\ v3_last_emitted = V3NoneMap
  /\ v3_last_emitted_before = V3NoneMap
  /\ v3_ts = 0
  /\ v3_all_raised = FALSE

\* The variables of the script when another script is the one running.
IdleV3 ==
  /\ v3_if_name = "Ethernet1"
  /\ v3_prev_values = V3NoneMap
  /\ v3_updates = << >>
  /\ v3_current = V3NoneMap
  /\ v3_polled_before = V3NoneMap
  /\ v3_last_emitted = V3NoneMap
  /\ v3_last_emitted_before = V3NoneMap
  /\ v3_ts = 0
  /\ v3_all_raised = FALSE

\* SNMPLeafMonitor.generate_updates(ts_ns), one whole call.
V3GenerateUpdates ==
  /\ program = "v3"
  /\ \E current \in V3Polls, ts_ns \in 1..MaxTs, all_raised \in BOOLEAN :
       LET out == V3Emitted(v3_if_name, v3_updates')
       IN  /\ all_raised => current = V3Unreachable
           /\ v3_all_raised' = all_raised
           /\ v3_ts' = ts_ns
           /\ v3_updates' =
                v3_build_updates(v3_if_name, v3_prev_values, current, ts_ns)
           /\ v3_prev_values' = v3_next_prev_values(v3_prev_values, current)
           /\ v3_current' = current
           /\ v3_polled_before' = v3_current
           /\ v3_last_emitted' =
                [k \in V3Leaves |-> IF k \in out THEN current[k]
                                    ELSE v3_last_emitted[k]]
           /\ v3_last_emitted_before' = v3_last_emitted
  /\ UNCHANGED << program, v3_if_name, othersV3 >>

\* The whole list written as one object.
v3_objects_one_batch(updates, ts_ns) ==
  << [source |-> "router-edge", subscription_name |-> "snmp_onchange_pure",
      timestamp |-> ts_ns, time |-> IsoTime(ts_ns), updates |-> updates] >>

\* SNMPPureOnChangeMonitor.run, lines 137-145: every update of the list is
\* written as an object of its own.
v3_objects(updates, ts_ns) ==
  [i \in DOMAIN updates |->
     [source |-> "router-edge", subscription_name |-> "snmp_onchange_pure",
      timestamp |-> ts_ns, time |-> IsoTime(ts_ns),
      updates |-> << updates[i] >>]]

NextV3 == V3GenerateUpdates

\* ======================================================================
\* if-stats-snmp-multi.py : EfficientSNMPCollector (multi-target)
\* ======================================================================

\* dict.get(key, default)
Get(d, k, default) == IF k \in DOMAIN d THEN d[k] ELSE default

\* int(s) of a decimal string, tabulated over the counters of the model.
IntOf ==
  [s \in {ToString(n) : n \in Counters \cup Samples} |->
     CHOOSE n \in Counters \cup Samples : ToString(n) = s]

RECURSIVE SumSeq(_)
SumSeq(s) == IF s = << >> THEN 0 ELSE Head(s) + SumSeq(Tail(s))

\* TARGETS: collector names in list order, and each one's "interfaces" dict
\* in insertion order.
MT_NAMES == << "edge-router", "core-switch" >>

MT_INTERFACES ==
  [c \in Range(MT_NAMES) |->
     IF c = "edge-router"
     THEN << [name |-> "Ethernet1", index |-> 1],
             [name |-> "Ethernet2", index |-> 2] >>
     ELSE << [name |-> "Ethernet3", index |-> 3],
             [name |-> "Ethernet4", index |-> 4],
             [name |-> "Ethernet5", index |-> 5] >>]

MtIfNames(c) == {MT_INTERFACES[c][i].name : i \in DOMAIN MT_INTERFACES[c]}

\* OID_MAP in the order of the dict literal.
MT_OID_MAP ==
  << [metric |-> "in-octets",          oid |-> ".1.3.6.1.2.1.31.1.1.1.6"],
     [metric |-> "out-octets",         oid |-> ".1.3.6.1.2.1.31.1.1.1.10"],
     [metric |-> "in-unicast-pkts",    oid |-> ".1.3.6.1.2.1.31.1.1.1.7"],
     [metric |-> "out-unicast-pkts",   oid |-> ".1.3.6.1.2.1.31.1.1.1.11"],
     [metric |-> "in-multicast-pkts",  oid |-> ".1.3.6.1.2.1.31.1.1.1.8"],
     [metric |-> "out-multicast-pkts", oid |-> ".1.3.6.1.2.1.31.1.1.1.12"],
     [metric |-> "in-broadcast-pkts",  oid |-> ".1.3.6.1.2.1.31.1.1.1.9"],
     [metric |-> "out-broadcast-pkts", oid |-> ".1.3.6.1.2.1.31.1.1.1.13"],
     [metric |-> "in-discards",        oid |-> ".1.3.6.1.2.1.2.2.1.13"],
     [metric |-> "out-discards",       oid |-> ".1.3.6.1.2.1.2.2.1.19"],
     [metric |-> "in-errors",          oid |-> ".1.3.6.1.2.1.2.2.1.14"],
     [metric |-> "out-errors",         oid |-> ".1.3.6.1.2.1.2.2.1.20"],
     [metric |-> "in-fcs-errors",      oid |-> ".1.3.6.1.2.1.10.7.2.1.3"] >>

MT_CALCULATED_METRICS ==
  [m \in {"in-pkts", "out-pkts"} |->
     IF m = "in-pkts"
     THEN << "in-unicast-pkts", "in-multicast-pkts", "in-broadcast-pkts" >>
     ELSE << "out-unicast-pkts", "out-multicast-pkts", "out-broadcast-pkts" >>]

\* The order in which the keys of a data[ifn] dict are inserted: the polled
\* metrics in OID_MAP order, then in-pkts and out-pkts.
MT_KEY_ORDER ==
  [i \in DOMAIN MT_OID_MAP |-> MT_OID_MAP[i].metric] \o << "in-pkts", "out-pkts" >>

MtMetrics == Range(MT_KEY_ORDER)

\* build_oid_list: f"{oid}.{idx}" for idx in interfaces.values() for oid in
\* OID_MAP.values(); an OID is kept as its base and its last component.
mt_build_oid_list(c) ==
  [n \in 1..(Len(MT_INTERFACES[c]) * Len(MT_OID_MAP)) |->
     [base  |-> MT_OID_MAP[((n - 1) % Len(MT_OID_MAP)) + 1].oid,
      index |-> MT_INTERFACES[c][((n - 1) \div Len(MT_OID_MAP)) + 1].index]]

\* Lines 141-144: int(res.value), 0 on ValueError.
mt_int(value) == IF value \in DOMAIN IntOf THEN IntOf[value] ELSE 0

\* Lines 131-139: the interface and the metric that an OID of oid_list
\* stands for ("" when next(...) finds none).
mt_if_name(c, oid) ==
  LET hit == {i \in DOMAIN MT_INTERFACES[c] :
                MT_INTERFACES[c][i].index = oid.index}
  IN  IF hit = {} THEN ""
      ELSE MT_INTERFACES[c][CHOOSE i \in hit : \A j \in hit : i <= j].name

mt_metric(oid) ==
  LET hit == {i \in DOMAIN MT_OID_MAP : MT_OID_MAP[i].oid = oid.base}
  IN  IF hit = {} THEN ""
      ELSE MT_OID_MAP[CHOOSE i \in hit : \A j \in hit : i <= j].metric

\* Lines 126-144: the polled metrics of one interface.  A NOSUCHINSTANCE
\* result is skipped, so its metric is no key of the dict.
mt_polled(c, results, ifn) ==
  LET oid_list == mt_build_oid_list(c)
      kept == {n \in DOMAIN oid_list :
                 /\ results[n] # "NOSUCHINSTANCE"
                 /\ mt_if_name(c, oid_list[n]) = ifn
                 /\ mt_metric(oid_list[n]) # ""}
  IN  [m \in {mt_metric(oid_list[n]) : n \in kept} |->
         mt_int(results[CHOOSE n \in kept : mt_metric(oid_list[n]) = m])]

\* Mutant: the total leaves the multicast counter out.
mt_total_no_multicast(metrics, total) ==
  Get(metrics, MT_CALCULATED_METRICS[total][1], 0)
  + Get(metrics, MT_CALCULATED_METRICS[total][3], 0)

\* Lines 147-148: sum(data[ifn].get(m, 0) for m in CALCULATED_METRICS[total]).
mt_total(metrics, total) ==
  SumSeq([i \in DOMAIN MT_CALCULATED_METRICS[total] |->
            Get(metrics, MT_CALCULATED_METRICS[total][i], 0)])

\* collect, given what session.get returned.
mt_collect(c, results) ==
  [ifn \in MtIfNames(c) |->
     LET metrics == mt_polled(c, results, ifn)
     IN  [m \in DOMAIN metrics \cup {"in-pkts", "out-pkts"} |->
            IF m \in {"in-pkts", "out-pkts"} THEN mt_total(metrics, m)
            ELSE metrics[m]]]

\* f"{ifn}_{k}", tabulated, and the interface and metric of each key.
MtAllIfNames == UNION {MtIfNames(c) : c \in Range(MT_NAMES)}
MtKey == [ifn \in MtAllIfNames |-> [k \in MtMetrics |-> ifn \o "_" \o k]]
MtKeys(ifn) == {MtKey[ifn][k] : k \in MtMetrics}
MtKeyMetric ==
  [key \in UNION {MtKeys(ifn) : ifn \in MtAllIfNames} |->
     CHOOSE k \in MtMetrics : \E ifn \in MtAllIfNames : MtKey[ifn][k] = key]
MtKeyIf ==
  [key \in UNION {MtKeys(ifn) : ifn \in MtAllIfNames} |->
     CHOOSE ifn \in MtAllIfNames : \E k \in MtMetrics : MtKey[ifn][k] = key]

\* Only a value above the retained one goes into updates.
mt_changed_increase_only(previous_values, ifn, k, v) ==
  \/ MtKey[ifn][k] \notin DOMAIN previous_values
  \/ previous_values[MtKey[ifn][k]] < v

\* Line 162: the metric goes into updates (previous_values.get(key) != v).
mt_changed(previous_values, ifn, k, v) ==
  ~(MtKey[ifn][k] \in DOMAIN previous_values
    /\ previous_values[MtKey[ifn][k]] = v)

\* Only the metrics whose value is not 0 go into updates.
mt_updates_zero_suppressed(previous_values, ifn, metrics) ==
  LET ks == SelectSeq(MT_KEY_ORDER,
              LAMBDA k : k \in DOMAIN metrics
                         /\ metrics[k] # 0
                         /\ mt_changed(previous_values, ifn, k, metrics[k]))
  IN  [i \in DOMAIN ks |-> [Path |-> ks[i], values |-> [key |-> ks[i], val |-> metrics[ks[i]]]]]

\* Lines 159-164: the updates of one interface, in dict order.
mt_updates(previous_values, ifn, metrics) ==
  LET ks == SelectSeq(MT_KEY_ORDER,
              LAMBDA k : k \in DOMAIN metrics
                         /\ mt_changed(previous_values, ifn, k, metrics[k]))
  IN  [i \in DOMAIN ks |-> [Path |-> ks[i], values |-> [key |-> ks[i], val |-> metrics[ks[i]]]]]

\* Line 172: f"interfaces/interface[name={ifn}]/state/counters".
MtPrefix ==
  [ifn \in MtAllIfNames |->
     "interfaces/interface[name=" \o ifn \o "]/state/counters"]

\* One line of generate_gnmi; ts and iso are both taken from one reading of
\* the clock (lines 153-155).
MtLine(c, ifn, now, updates) ==
  [source |-> c, subscription_name |-> "eos_interface_stats",
   timestamp |-> now, time |-> IsoTime(now),
   prefix |-> MtPrefix[ifn], updates |-> updates]

\* generate_gnmi: one line per interface that has updates, in the order of
\* the data dict (the order of the interfaces dict).
mt_generate_gnmi(c, data, previous_values, now) ==
  LET ifs == SelectSeq(MT_INTERFACES[c],
               LAMBDA i : mt_updates(previous_values, i.name, data[i.name]) # << >>)
  IN  [n \in DOMAIN ifs |->
         MtLine(c, ifs[n].name, now,
                mt_updates(previous_values, ifs[n].name, data[ifs[n].name]))]

\* Mutant: the assignment of line 164 is missing.
mt_next_previous_values_stale(c, data, previous_values) == previous_values

\* Line 164: previous_values after generate_gnmi: the keys of the metrics
\* that went into updates are set, every other key is left as it was.
mt_next_previous_values(c, data, previous_values) ==
  LET set == {MtKey[ifn][k] : ifn \in MtIfNames(c), k \in MtMetrics}
             \cap {key \in UNION {MtKeys(ifn) : ifn \in MtIfNames(c)} :
                     /\ MtKeyMetric[key] \in DOMAIN data[MtKeyIf[key]]
                     /\ mt_changed(previous_values, MtKeyIf[key], MtKeyMetric[key],
                                   data[MtKeyIf[key]][MtKeyMetric[key]])}
  IN  [key \in DOMAIN previous_values \cup set |->
         IF key \in set THEN data[MtKeyIf[key]][MtKeyMetric[key]]
         ELSE previous_values[key]]

\* Counters that move on the modelled devices; every other OID answers
\* NOSUCHINSTANCE.
MtLive ==
  { << "Ethernet1", "in-unicast-pkts" >>, << "Ethernet1", "in-multicast-pkts" >>,
    << "Ethernet3", "in-octets" >> }

\* What the agent of a live counter may answer: a counter, no instance, or a
\* value int() rejects.
MtAnswers == CounterStr \cup {"NOSUCHINSTANCE", "NOSUCHOBJECT"}

\* What session.get(oid_list) may return: one result per OID of the list.
MtAgent(c) ==
  LET oid_list == mt_build_oid_list(c)
      place(n) == << mt_if_name(c, oid_list[n]), mt_metric(oid_list[n]) >>
      live == {n \in DOMAIN oid_list : place(n) \in MtLive}
  IN  { [n \in DOMAIN oid_list |-> IF n \in live THEN pick[n] ELSE "NOSUCHINSTANCE"]
          : pick \in [live -> MtAnswers] }

\* What collect can return, per collector.
MtPolls == [c \in Range(MT_NAMES) |-> {mt_collect(c, r) : r \in MtAgent(c)}]

\* main, lines 194-204: the collectors as constructed.
MultiStart ==
  /\ mt_pc = 1
  /\ mt_previous_values = [c \in Range(MT_NAMES) |-> << >>]
  /\ mt_cycle_count = [c \in Range(MT_NAMES) |-> 0]
  /\ mt_lines = << >>
  /\ mt_data = [c \in Range(MT_NAMES) |-> [ifn \in MtIfNames(c) |-> << >>]]
  /\ mt_last = ""
  /\ mt_before = << >>
  /\ mt_emitted = [c \in Range(MT_NAMES) |-> << >>]

\* The variables of the script when another script is the one running.
IdleMulti == MultiStart

\* What a reader of the collector's file holds once the lines are appended
\* to it: per cache key the value of the last update, held being what it
\* held before.
MtApplied(c, lines, held) ==
  LET written ==
        UNION { { [key |-> MtKey[CHOOSE ifn \in MtIfNames(c) :
                                   MtPrefix[ifn] = lines[n].prefix]
                                [lines[n].updates[j].Path],
                   val |-> lines[n].updates[j].values.val]
                  : j \in DOMAIN lines[n].updates }
                : n \in DOMAIN lines }
  IN  [key \in DOMAIN held \cup {w.key : w \in written} |->
         IF \E w \in written : w.key = key
         THEN (CHOOSE w \in written : w.key = key).val
         ELSE held[key]]

\* for c in collectors, inside while True.
MtNextPc == IF mt_pc = Len(MT_NAMES) THEN 1 ELSE mt_pc + 1

\* run_cycle of the collector whose turn it is, without an exception.
MtRunCycle ==
  /\ program = "multi"
  /\ mt_pc # 0
  /\ mt_cycle_count[MT_NAMES[mt_pc]] < MaxCycles
  /\ \E data \in MtPolls[MT_NAMES[mt_pc]], now \in 1..MaxTs :
       /\ mt_lines' = mt_generate_gnmi(MT_NAMES[mt_pc], data,
                        mt_previous_values[MT_NAMES[mt_pc]], now)
       /\ mt_previous_values' =
            [mt_previous_values EXCEPT ![MT_NAMES[mt_pc]] =
               mt_next_previous_values(MT_NAMES[mt_pc], data, @)]
       /\ mt_data' = [mt_data EXCEPT ![MT_NAMES[mt_pc]] = data]
       /\ mt_before' = mt_data[MT_NAMES[mt_pc]]
  /\ mt_emitted' = [mt_emitted EXCEPT ![MT_NAMES[mt_pc]] =
                       MtApplied(MT_NAMES[mt_pc], mt_lines', @)]
  /\ mt_cycle_count' = [mt_cycle_count EXCEPT ![MT_NAMES[mt_pc]] = @ + 1]
  /\ mt_last' = MT_NAMES[mt_pc]
  /\ mt_pc' = MtNextPc
  /\ UNCHANGED << program, othersMulti >>

\* run_cycle in which session.get raises: nothing catches it but the
\* KeyboardInterrupt handler of main, so the process ends.
MtGetRaises ==
  /\ program = "multi"
  /\ mt_pc # 0
  /\ mt_cycle_count[MT_NAMES[mt_pc]] < MaxCycles
  /\ mt_pc' = 0
  /\ UNCHANGED << mt_previous_values, mt_cycle_count, mt_lines, mt_data,
                  mt_last, mt_before, mt_emitted >>
  /\ UNCHANGED << program, othersMulti >>

\* run_cycle in which save raises: generate_gnmi has already run.
MtSaveRaises ==
  /\ program = "multi"
  /\ mt_pc # 0
  /\ mt_cycle_count[MT_NAMES[mt_pc]] < MaxCycles
  /\ \E data \in MtPolls[MT_NAMES[mt_pc]], now \in 1..MaxTs :
       /\ mt_lines' = mt_generate_gnmi(MT_NAMES[mt_pc], data,
                        mt_previous_values[MT_NAMES[mt_pc]], now)
       /\ mt_previous_values' =
            [mt_previous_values EXCEPT ![MT_NAMES[mt_pc]] =
               mt_next_previous_values(MT_NAMES[mt_pc], data, @)]
       /\ mt_data' = [mt_data EXCEPT ![MT_NAMES[mt_pc]] = data]
       /\ mt_before' = mt_data[MT_NAMES[mt_pc]]
  /\ mt_last' = MT_NAMES[mt_pc]
  /\ mt_pc' = 0
  /\ UNCHANGED << mt_cycle_count, mt_emitted >>
  /\ UNCHANGED << program, othersMulti >>

NextMulti == MtRunCycle \/ MtGetRaises \/ MtSaveRaises

\* ======================================================================
\* ifaces-stats-snmp-ipv6.py : AristaIPv6Monitor
\* ======================================================================

V6_ARISTA_OIDS == << "in-pkts-ipv6", "out-pkts-ipv6" >>

\* STD_OIDS in the order of the dict literal.
V6_STD_OIDS ==
  << "in-octets", "out-octets", "in-unicast-pkts", "out-unicast-pkts",
     "in-multicast-pkts", "out-multicast-pkts", "in-broadcast-pkts",
     "out-broadcast-pkts", "in-discards", "out-discards", "in-errors",
     "out-errors", "carrier-transitions", "in-fcs-errors" >>

\* self.interfaces, names only (the index goes into the OID).
V6_INTERFACES == << "Ethernet1", "Ethernet2" >>

\* Every OID the monitor polls for one interface.
V6Oids == Range(V6_ARISTA_OIDS) \cup Range(V6_STD_OIDS)

\* The keys of the dict collect_interface returns.
V6Keys == {"in-pkts", "out-pkts"} \cup Range(V6_STD_OIDS)

\* gnmipath_map in the order of the dict literal; carrier-transitions is
\* commented out of it.
V6_GNMIPATH_MAP ==
  << [key |-> "in-pkts",            gnmipath |-> "in-pkts"],
     [key |-> "out-pkts",           gnmipath |-> "out-pkts"],
     [key |-> "in-octets",          gnmipath |-> "in-octets"],
     [key |-> "out-octets",         gnmipath |-> "out-octets"],
     [key |-> "in-unicast-pkts",    gnmipath |-> "in-unicast-pkts"],
     [key |-> "out-unicast-pkts",   gnmipath |-> "out-unicast-pkts"],
     [key |-> "in-multicast-pkts",  gnmipath |-> "in-multicast-pkts"],
     [key |-> "out-multicast-pkts", gnmipath |-> "out-multicast-pkts"],
     [key |-> "in-broadcast-pkts",  gnmipath |-> "in-broadcast-pkts"],
     [key |-> "out-broadcast-pkts", gnmipath |-> "out-broadcast-pkts"],
     [key |-> "in-discards",        gnmipath |-> "in-discards"],
     [key |-> "out-discards",       gnmipath |-> "out-discards"],
     [key |-> "in-errors",          gnmipath |-> "in-errors"],
     [key |-> "out-errors",         gnmipath |-> "out-errors"],
     [key |-> "in-fcs-errors",      gnmipath |-> "in-fcs-errors"] >>

\* get_counter: str(res.value) when the get succeeds with a usable value,
\* "0" otherwise (exception swallowed).
v6_get_counter(res) ==
  IF ~res.raised /\ res.value # ""
     /\ res.value \notin {"NOSUCHINSTANCE", "NOSUCHOBJECT", ""}
  THEN res.value
  ELSE "0"

\* Mutant: in-pkts and out-pkts are computed as the sums of the unicast,
\* multicast and broadcast counters of the same direction.
v6_collect_interface_summed(answers) ==
  LET n(k) == IntOf[v6_get_counter(answers[k])]
  IN  [k \in V6Keys |->
         IF k = "in-pkts"
         THEN ToString(n("in-unicast-pkts") + n("in-multicast-pkts")
                       + n("in-broadcast-pkts"))
         ELSE IF k = "out-pkts"
         THEN ToString(n("out-unicast-pkts") + n("out-multicast-pkts")
                       + n("out-broadcast-pkts"))
         ELSE v6_get_counter(answers[k])]

\* collect_interface, given the agent's answer to each OID of the interface.
v6_collect_interface(answers) ==
  [k \in V6Keys |->
     IF k = "in-pkts" THEN v6_get_counter(answers["in-pkts-ipv6"])
     ELSE IF k = "out-pkts" THEN v6_get_counter(answers["out-pkts-ipv6"])
     ELSE v6_get_counter(answers[k])]

\* Mutant: a key the previous state does not hold is compared with "0".
v6_changed_default_zero(current, prev) ==
  LET ch == {k \in DOMAIN current : current[k] # Get(prev, k, "0")}
  IN  IF ch = {} /\ prev = << >> THEN DOMAIN current ELSE ch

\* Lines 78-80: the keys of changed (its values are those of current).
v6_changed(current, prev) ==
  LET ch == {k \in DOMAIN current : current[k] # Get(prev, k, None)}
  IN  IF ch = {} /\ prev = << >> THEN DOMAIN current ELSE ch

\* f"{prefix}/{gnmipath}" and f"{prefix}/last-update", tabulated.
V6Paths ==
  [if_name \in Range(V6_INTERFACES) |->
     [leaf \in {V6_GNMIPATH_MAP[i].gnmipath : i \in DOMAIN V6_GNMIPATH_MAP}
               \cup {"last-update"} |->
        "interfaces/interface[name=" \o if_name \o "]/state/counters/" \o leaf]]

\* Line 122: int(val_raw) if val_raw.isdigit() else val_raw.
v6_val(val_raw) == IF val_raw \in DOMAIN IntOf THEN IntOf[val_raw] ELSE val_raw

\* One object of the list generate_updates returns.
V6Batch(ts_ns, path, val) ==
  [source |-> "router-edge", subscription_name |-> "snmp_interface_stats",
   timestamp |-> ts_ns, time |-> IsoTime(ts_ns),
   updates |-> << Update(path, val) >>]

\* Lines 85-134 for one interface: last-update, then one object per key of
\* gnmipath_map that is in changed.
v6_batches(if_name, current, changed, ts_ns) ==
  LET emitted == SelectSeq(V6_GNMIPATH_MAP, LAMBDA e : e.key \in changed)
  IN  << V6Batch(ts_ns, V6Paths[if_name]["last-update"], ts_ns) >> \o
      [i \in 1..Len(emitted) |->
         V6Batch(ts_ns, V6Paths[if_name][emitted[i].gnmipath],
                 v6_val(current[emitted[i].key]))]

\* Lines 74-134: the objects appended for one interface.
v6_interface_updates(if_name, current, prev, ts_ns) ==
  v6_batches(if_name, current, v6_changed(current, prev), ts_ns)

\* prev_state.get(if_name, {})
v6_prev(prev_state, if_name) == Get(prev_state, if_name, << >>)

RECURSIVE v6_generate_updates(_, _, _, _)
\* generate_updates over the interfaces from the n-th on.
v6_generate_updates(n, current, prev_state, ts_ns) ==
  IF n > Len(V6_INTERFACES) THEN << >>
  ELSE v6_interface_updates(V6_INTERFACES[n], current[V6_INTERFACES[n]],
                            v6_prev(prev_state, V6_INTERFACES[n]), ts_ns)
       \o v6_generate_updates(n + 1, current, prev_state, ts_ns)

\* Counters that move on the modelled device; every other OID has no
\* instance.
V6Live ==
  { << "Ethernet1", "in-pkts-ipv6" >>, << "Ethernet1", "in-unicast-pkts" >>,
    << "Ethernet2", "in-octets" >> }

\* What a live OID may answer: a counter, or the get raises.
V6Answers == {Raised} \cup {Answer(s) : s \in CounterStr}

\* The agent's answers in one generate_updates call.
V6Agent ==
  { [if_name \in Range(V6_INTERFACES) |->
       [oid \in V6Oids |->
          IF << if_name, oid >> \in V6Live THEN pick[<< if_name, oid >>]
          ELSE Answer("NOSUCHINSTANCE")]]
      : pick \in [V6Live -> V6Answers] }

\* The calls the monitor can make: the agent's answers and what
\* collect_interface returns for each interface.
V6Polls ==
  { [answers |-> a,
     current |-> [if_name \in Range(V6_INTERFACES) |->
                    v6_collect_interface(a[if_name])]] : a \in V6Agent }

V6Empty == [if_name \in Range(V6_INTERFACES) |-> << >>]

\* AristaIPv6Monitor.__init__
V6Start ==
  /\ v6_prev_state = << >>
  /\ v6_updates = << >>
  /\ v6_answers = V6Empty
  /\ v6_current = V6Empty
  /\ v6_polled_before = V6Empty

\* The variables of the script when another script is the one running.
IdleV6 == V6Start

\* generate_updates(ts_ns), one whole call (main, line 160).
V6GenerateUpdates ==
  /\ program = "ipv6"
  /\ \E poll \in V6Polls, ts_ns \in 1..MaxTs :
       /\ v6_current' = poll.current
       /\ v6_updates' =
            v6_generate_updates(1, poll.current, v6_prev_state, ts_ns)
       /\ v6_prev_state' = poll.current
       /\ v6_answers' = poll.answers
       /\ v6_polled_before' = v6_current
  /\ UNCHANGED << program, othersV6 >>

NextV6 == V6GenerateUpdates

\* ======================================================================
\* if-stats-snmp-get-optimizado.py : EfficientSNMPCollector (single request)
\* ======================================================================

\* INTERFACES in insertion order.
OPT_INTERFACES ==
  << [name |-> "Ethernet1", index |-> 1], [name |-> "Ethernet2", index |-> 2] >>

OptIfNames == {OPT_INTERFACES[i].name : i \in DOMAIN OPT_INTERFACES}

\* OID_MAP in the order of the dict literal.
OPT_OID_MAP ==
  << [metric |-> "in-octets",          oid |-> ".1.3.6.1.2.1.31.1.1.1.6"],
     [metric |-> "out-octets",         oid |-> ".1.3.6.1.2.1.31.1.1.1.10"],
     [metric |-> "in-unicast-pkts",    oid |-> ".1.3.6.1.2.1.31.1.1.1.7"],
     [metric |-> "out-unicast-pkts",   oid |-> ".1.3.6.1.2.1.31.1.1.1.11"],
     [metric |-> "in-multicast-pkts",  oid |-> ".1.3.6.1.2.1.31.1.1.1.8"],
     [metric |-> "out-multicast-pkts", oid |-> ".1.3.6.1.2.1.31.1.1.1.12"],
     [metric |-> "in-broadcast-pkts",  oid |-> ".1.3.6.1.2.1.31.1.1.1.9"],
     [metric |-> "out-broadcast-pkts", oid |-> ".1.3.6.1.2.1.31.1.1.1.13"],
     [metric |-> "in-discards",        oid |-> ".1.3.6.1.2.1.2.2.1.13"],
     [metric |-> "out-discards",       oid |-> ".1.3.6.1.2.1.2.2.1.19"],
     [metric |-> "in-errors",          oid |-> ".1.3.6.1.2.1.2.2.1.14"],
     [metric |-> "out-errors",         oid |-> ".1.3.6.1.2.1.2.2.1.20"],
     [metric |-> "in-fcs-errors",      oid |-> ".1.3.6.1.2.1.10.7.2.1.3"],
     [metric |-> "in-pkts-ipv6",       oid |-> ".1.3.6.1.4.1.30065.3.27.1.1.1.3.2"],
     [metric |-> "out-pkts-ipv6",      oid |-> ".1.3.6.1.4.1.30065.3.27.1.1.1.5.2"] >>

OPT_CALCULATED_METRICS ==
  [m \in {"in-pkts", "out-pkts"} |->
     IF m = "in-pkts"
     THEN << "in-unicast-pkts", "in-multicast-pkts", "in-broadcast-pkts" >>
     ELSE << "out-unicast-pkts", "out-multicast-pkts", "out-broadcast-pkts" >>]

\* key_metrics of generate_compact_gnmi.
OPT_KEY_METRICS == {"in-octets", "out-octets", "in-discards", "out-discards"}

\* The absolute threshold of line 246, and the period of the sync-response
\* of line 271.
OPT_MIN_DELTA == 1000
OPT_SYNC_EVERY == 100

\* The order in which the keys of a data[if_name] dict are inserted.
OPT_KEY_ORDER ==
  [i \in DOMAIN OPT_OID_MAP |-> OPT_OID_MAP[i].metric] \o << "in-pkts", "out-pkts" >>

OptMetrics == Range(OPT_KEY_ORDER)

\* build_single_oid_list: f"{oid_base}.{if_index}", interfaces outermost.
opt_build_single_oid_list ==
  [n \in 1..(Len(OPT_INTERFACES) * Len(OPT_OID_MAP)) |->
     [base  |-> OPT_OID_MAP[((n - 1) % Len(OPT_OID_MAP)) + 1].oid,
      index |-> OPT_INTERFACES[((n - 1) \div Len(OPT_OID_MAP)) + 1].index]]

\* Lines 156-160 and 167-171: the interface and the metric of an OID ("" when
\* the loop finds none).
opt_if_name(oid) ==
  LET hit == {i \in DOMAIN OPT_INTERFACES : OPT_INTERFACES[i].index = oid.index}
  IN  IF hit = {} THEN ""
      ELSE OPT_INTERFACES[CHOOSE i \in hit : \A j \in hit : i <= j].name

opt_metric_name(oid) ==
  LET hit == {i \in DOMAIN OPT_OID_MAP : OPT_OID_MAP[i].oid = oid.base}
  IN  IF hit = {} THEN ""
      ELSE OPT_OID_MAP[CHOOSE i \in hit : \A j \in hit : i <= j].metric

\* A value that int() rejects stored as -1.
opt_value_unparsed_negative(value) ==
  IF value # "" /\ value # "NOSUCHINSTANCE"
  THEN IF value \in DOMAIN IntOf THEN IntOf[value] ELSE 0 - 1
  ELSE 0

\* Lines 177-184: the value stored for one result.
opt_value(value) ==
  IF value # "" /\ value # "NOSUCHINSTANCE"
  THEN IF value \in DOMAIN IntOf THEN IntOf[value] ELSE 0
  ELSE 0

\* process_results: results[i] is consumed for the i-th OID while there is
\* one (line 146).
opt_process_results(oid_list, results) ==
  [if_name \in OptIfNames |->
     LET kept == {n \in DOMAIN oid_list :
                    /\ n <= Len(results)
                    /\ opt_if_name(oid_list[n]) = if_name
                    /\ opt_metric_name(oid_list[n]) # ""}
     IN  [m \in {opt_metric_name(oid_list[n]) : n \in kept} |->
            opt_value(results[CHOOSE n \in kept : opt_metric_name(oid_list[n]) = m])]]

\* Lines 195-197 and 201-203: the running total over CALCULATED_METRICS.
opt_total(metrics, total) ==
  SumSeq([i \in DOMAIN OPT_CALCULATED_METRICS[total] |->
            Get(metrics, OPT_CALCULATED_METRICS[total][i], 0)])

\* calculate_derived_metrics: data with in-pkts and out-pkts set for every
\* interface of INTERFACES that is in data.
opt_calculate_derived_metrics(data) ==
  [if_name \in DOMAIN data |->
     IF if_name \in OptIfNames
     THEN [m \in DOMAIN data[if_name] \cup {"in-pkts", "out-pkts"} |->
             IF m \in {"in-pkts", "out-pkts"} THEN opt_total(data[if_name], m)
             ELSE data[if_name][m]]
     ELSE data[if_name]]

\* collect_single_request when session.get returns results (lines 120-134).
opt_collect_single_request(results) ==
  opt_calculate_derived_metrics(
    opt_process_results(opt_build_single_oid_list, results))

\* cache_key = f"{if_name}_{metric_name}", tabulated.
OptKey == [if_name \in OptIfNames |-> [k \in OptMetrics |-> if_name \o "_" \o k]]
OptKeyMetric ==
  [key \in {OptKey[i][k] : i \in OptIfNames, k \in OptMetrics} |->
     CHOOSE k \in OptMetrics : \E i \in OptIfNames : OptKey[i][k] = key]
OptKeyIf ==
  [key \in {OptKey[i][k] : i \in OptIfNames, k \in OptMetrics} |->
     CHOOSE i \in OptIfNames : \E k \in OptMetrics : OptKey[i][k] = key]

\* abs(value - previous)
OptAbs(n) == IF n < 0 THEN 0 - n ELSE n

\* Mutant: the key metrics get no special treatment.
opt_should_include_no_key_metrics(metric_name, value, previous_values, cache_key) ==
  \/ cache_key \notin DOMAIN previous_values
  \/ value # previous_values[cache_key]
  \/ /\ previous_values[cache_key] > 0
     /\ OptAbs(value - previous_values[cache_key]) > OPT_MIN_DELTA
     /\ OptAbs(value - previous_values[cache_key]) * 100 > previous_values[cache_key]

\* The magnitude threshold alone deciding for a cached metric that is no
\* key metric.
opt_should_include_threshold_only(metric_name, value, previous_values, cache_key) ==
  \/ metric_name \in OPT_KEY_METRICS
  \/ cache_key \notin DOMAIN previous_values
  \/ /\ previous_values[cache_key] > 0
     /\ OptAbs(value - previous_values[cache_key]) > OPT_MIN_DELTA
     /\ OptAbs(value - previous_values[cache_key]) * 100 > previous_values[cache_key]

\* Lines 234-247: should_include, with previous = previous_values.get(cache_key).
\* abs(d) > max(1000, previous * 0.01) is abs(d) > 1000 and abs(d) * 100 >
\* previous.
opt_should_include(metric_name, value, previous_values, cache_key) ==
  \/ metric_name \in OPT_KEY_METRICS
  \/ cache_key \notin DOMAIN previous_values
  \/ value # previous_values[cache_key]
  \/ /\ previous_values[cache_key] > 0
     /\ OptAbs(value - previous_values[cache_key]) > OPT_MIN_DELTA
     /\ OptAbs(value - previous_values[cache_key]) * 100 > previous_values[cache_key]

\* Lines 230-253: the updates of one interface, in dict order.
opt_updates(previous_values, if_name, current_metrics) ==
  LET ks == SelectSeq(OPT_KEY_ORDER,
              LAMBDA k : /\ k \in DOMAIN current_metrics
                         /\ opt_should_include(k, current_metrics[k],
                                               previous_values, OptKey[if_name][k]))
  IN  [i \in DOMAIN ks |->
         [Path |-> ks[i], values |-> [key |-> ks[i], val |-> current_metrics[ks[i]]]]]

\* Line 266: f"interfaces/interface[name={if_name}]/state/counters".
OptPrefix ==
  [if_name \in OptIfNames |->
     "interfaces/interface[name=" \o if_name \o "]/state/counters"]

\* Lines 261-268: the object of one interface.
OptLine(if_name, now, updates) ==
  [source |-> "router-edge", subscription_name |-> "eos_interface_stats",
   timestamp |-> now, time |-> IsoTime(now),
   prefix |-> OptPrefix[if_name], updates |-> updates]

\* Line 272.
OptSync == [sync_response |-> TRUE]

\* The sync-response ahead of the objects of the interfaces.
opt_generate_compact_gnmi_sync_first(data, previous_values, cycle_count, now) ==
  LET ifs == SelectSeq(OPT_INTERFACES,
               LAMBDA i : /\ i.name \in DOMAIN data
                          /\ opt_updates(previous_values, i.name, data[i.name]) # << >>)
  IN  (IF cycle_count % OPT_SYNC_EVERY = 0 THEN << OptSync >> ELSE << >>)
      \o [n \in DOMAIN ifs |->
            OptLine(ifs[n].name, now,
                    opt_updates(previous_values, ifs[n].name, data[ifs[n].name]))]

\* generate_compact_gnmi: one object per interface of INTERFACES that is in
\* data and has updates, then the sync-response every 100th cycle.
opt_generate_compact_gnmi(data, previous_values, cycle_count, now) ==
  LET ifs == SelectSeq(OPT_INTERFACES,
               LAMBDA i : /\ i.name \in DOMAIN data
                          /\ opt_updates(previous_values, i.name, data[i.name]) # << >>)
  IN  [n \in DOMAIN ifs |->
         OptLine(ifs[n].name, now,
                 opt_updates(previous_values, ifs[n].name, data[ifs[n].name]))]
      \o (IF cycle_count % OPT_SYNC_EVERY = 0 THEN << OptSync >> ELSE << >>)

\* Line 257: previous_values after generate_compact_gnmi.
opt_next_previous_values(data, previous_values) ==
  LET set == {key \in DOMAIN OptKeyIf :
                /\ OptKeyIf[key] \in DOMAIN data
                /\ OptKeyMetric[key] \in DOMAIN data[OptKeyIf[key]]
                /\ opt_should_include(OptKeyMetric[key],
                                      data[OptKeyIf[key]][OptKeyMetric[key]],
                                      previous_values, key)}
  IN  [key \in DOMAIN previous_values \cup set |->
         IF key \in set THEN data[OptKeyIf[key]][OptKeyMetric[key]]
         ELSE previous_values[key]]

\* What the agent may answer for the counters that move on the modelled
\* device; every other OID answers NOSUCHINSTANCE.
OptLive ==
  [place \in { << "Ethernet1", "in-unicast-pkts" >>,
               << "Ethernet1", "in-multicast-pkts" >>,
               << "Ethernet2", "in-octets" >> } |->
     IF place[2] = "in-unicast-pkts"
     THEN {"0"} \cup {ToString(n) : n \in Samples}
     ELSE IF place[2] = "in-multicast-pkts" THEN CounterStr
     ELSE CounterStr \cup {"", "NOSUCHOBJECT"}]

\* What session.get(oid_list) may return: easysnmp returns one result per
\* OID of the list.
OptAgent ==
  LET oid_list == opt_build_single_oid_list
      place(n) == << opt_if_name(oid_list[n]), opt_metric_name(oid_list[n]) >>
      live == {n \in DOMAIN oid_list : place(n) \in DOMAIN OptLive}
  IN  { [n \in DOMAIN oid_list |-> IF n \in live THEN pick[n] ELSE "NOSUCHINSTANCE"]
          : pick \in {f \in [live -> UNION Range(OptLive)] :
                        \A n \in live : f[n] \in OptLive[place(n)]} }

\* What collect_single_request can return when the request succeeds.
OptPolls == {opt_collect_single_request(r) : r \in OptAgent}

\* EfficientSNMPCollector.__init__ and the entry of run_continuous.
OptStart ==
  /\ opt_pc = "start"
  /\ opt_previous_values = << >>
  /\ opt_cycle_count = 0
  /\ opt_lines = << >>
  /\ opt_data = << >>
  /\ opt_before = << >>

\* The variables of the script when another script is the one running.
IdleOpt == OptStart

\* The collector after OPT_SYNC_EVERY - 1 successful cycles in each of which
\* the agent gave the same answers: the first cycle stored every value, the
\* later ones found them as stored, and the last wrote the batches of the
\* key metrics.
OptLate ==
  \E poll \in OptPolls, now \in 1..MaxTs :
    LET stored == opt_next_previous_values(poll, << >>)
    IN  /\ opt_pc = "loop"
        /\ opt_previous_values = stored
        /\ opt_before = stored
        /\ opt_cycle_count = OPT_SYNC_EVERY - 1
        /\ opt_data = poll
        /\ opt_lines = opt_generate_compact_gnmi(poll, stored,
                                                 OPT_SYNC_EVERY - 1, now)

\* The cycles that are followed: the first MaxCycles, and the two around the
\* cycle that makes cycle_count a multiple of 100.
OptFollowed(cycle_count) ==
  \/ cycle_count < MaxCycles
  \/ /\ OPT_SYNC_EVERY - 1 <= cycle_count
     /\ cycle_count <= OPT_SYNC_EVERY

\* run_continuous, lines 345-352: connect succeeds.
OptConnect ==
  /\ program = "optimizado"
  /\ opt_pc = "start"
  /\ opt_pc' = "loop"
  /\ UNCHANGED << opt_previous_values, opt_cycle_count, opt_lines, opt_data,
                  opt_before >>
  /\ UNCHANGED << program, othersOpt >>

\* run_continuous, lines 345-346: connect fails and run_continuous returns.
OptConnectFails ==
  /\ program = "optimizado"
  /\ opt_pc = "start"
  /\ opt_pc' = "done"
  /\ UNCHANGED << opt_previous_values, opt_cycle_count, opt_lines, opt_data,
                  opt_before >>
  /\ UNCHANGED << program, othersOpt >>

\* A successful cycle that leaves cycle_count as it was.
OptCycleUncounted ==
  /\ program = "optimizado"
  /\ opt_pc = "loop"
  /\ OptFollowed(opt_cycle_count)
  /\ \E data \in OptPolls, now \in 1..MaxTs :
       /\ opt_data' = data
       /\ opt_lines' = opt_generate_compact_gnmi(data, opt_previous_values,
                                                 opt_cycle_count, now)
       /\ opt_previous_values' = opt_next_previous_values(data, opt_previous_values)
  /\ opt_before' = opt_previous_values
  /\ UNCHANGED << opt_pc, opt_cycle_count >>
  /\ UNCHANGED << program, othersOpt >>

\* run_efficient_cycle with a successful GetRequest: collect, generate, save.
OptCycle ==
  /\ program = "optimizado"
  /\ opt_pc = "loop"
  /\ OptFollowed(opt_cycle_count)
  /\ \E data \in OptPolls, now \in 1..MaxTs :
       /\ opt_data' = data
       /\ opt_lines' = opt_generate_compact_gnmi(data, opt_previous_values,
                                                 opt_cycle_count + 1, now)
       /\ opt_previous_values' = opt_next_previous_values(data, opt_previous_values)
  /\ opt_cycle_count' = opt_cycle_count + 1
  /\ opt_before' = opt_previous_values
  /\ UNCHANGED opt_pc
  /\ UNCHANGED << program, othersOpt >>

\* A failed cycle that is counted all the same.
OptGetRaisesCounted ==
  /\ program = "optimizado"
  /\ opt_pc = "loop"
  /\ OptFollowed(opt_cycle_count)
  /\ opt_data' = << >>
  /\ opt_lines' = << >>
  /\ opt_before' = opt_previous_values
  /\ opt_cycle_count' = opt_cycle_count + 1
  /\ UNCHANGED << opt_pc, opt_previous_values >>
  /\ UNCHANGED << program, othersOpt >>

\* run_efficient_cycle in which session.get raises: collect_single_request
\* returns {} and the cycle returns at line 311.
OptGetRaises ==
  /\ program = "optimizado"
  /\ opt_pc = "loop"
  /\ OptFollowed(opt_cycle_count)
  /\ opt_data' = << >>
  /\ opt_lines' = << >>
  /\ opt_before' = opt_previous_values
  /\ UNCHANGED << opt_pc, opt_previous_values, opt_cycle_count >>
  /\ UNCHANGED << program, othersOpt >>

NextOpt == OptConnect \/ OptConnectFails \/ OptCycle \/ OptGetRaises

\* ======================================================================
\* ifaces-stats-dual-snmp.py : SNMPInterfaceMonitor, SNMPDualMonitor
\* ======================================================================

\* OID_MAP keys in the order of the dict literal.
DU_OID_MAP ==
  << "in-octets", "in-unicast-pkts", "in-multicast-pkts", "in-broadcast-pkts",
     "out-octets", "out-unicast-pkts", "out-multicast-pkts",
     "out-broadcast-pkts", "in-discards", "in-errors", "out-discards",
     "out-errors", "carrier-transitions" >>

DuKeys == Range(DU_OID_MAP)

\* The two monitors SNMPDualMonitor builds, in the order run calls them.
DU_IF_NAMES == << "Ethernet1", "Ethernet2" >>

DuIfNames == Range(DU_IF_NAMES)

\* The fields collect_counters adds up, and the keys it adds to raw.
DU_IN_FIELDS == << "in-unicast-pkts", "in-multicast-pkts", "in-broadcast-pkts" >>

DU_OUT_FIELDS ==
  << "out-unicast-pkts", "out-multicast-pkts", "out-broadcast-pkts" >>

\* Keys of raw once in-pkts and out-pkts are stored.
DuRawKeys == DuKeys \cup {"in-pkts", "out-pkts"}

\* get_counter: the value as a string, "0" when the get raises or the agent
\* has no value.
du_get_counter(res) ==
  IF ~res.raised /\ res.value # ""
     /\ res.value \notin {"NOSUCHINSTANCE", "NOSUCHOBJECT", ""}
  THEN res.value
  ELSE "0"

\* Line 69: raw = {k: self.get_counter(k) for k in OID_MAP.keys()}.
du_polled(agent) == [k \in DuKeys |-> du_get_counter(agent[k])]

\* Lines 70-71 call int() on the six packet counters; int() raises
\* ValueError on a string that is not a decimal number.
du_int_raises(polled) ==
  \E f \in Range(DU_IN_FIELDS) \cup Range(DU_OUT_FIELDS) :
     polled[f] \notin DOMAIN IntOf

\* Lines 70-73: raw with in-pkts and out-pkts, str of the sums.
du_raw(polled) ==
  LET in_pkts == SumSeq([i \in DOMAIN DU_IN_FIELDS |-> IntOf[polled[DU_IN_FIELDS[i]]]])
      out_pkts == SumSeq([i \in DOMAIN DU_OUT_FIELDS |-> IntOf[polled[DU_OUT_FIELDS[i]]]])
  IN [k \in DuRawKeys |->
        IF k = "in-pkts" THEN ToString(in_pkts)
        ELSE IF k = "out-pkts" THEN ToString(out_pkts)
        ELSE polled[k]]

\* Line 75: the keys of raw whose value differs from prev_counters.get(k).
du_changed(raw, prev_counters) ==
  {k \in DOMAIN raw : raw[k] # Get(prev_counters, k, None)}

\* The changed keys returned even when there is none.
du_collect_counters_changed_only(raw, prev_counters) ==
  [k \in du_changed(raw, prev_counters) |-> raw[k]]

\* Line 79: return changed if changed else raw.
du_collect_counters(raw, prev_counters) ==
  LET changed == du_changed(raw, prev_counters)
  IN IF changed # {} THEN [k \in changed |-> raw[k]] ELSE raw

\* get_path_prefix.
du_get_path_prefix ==
  [if_name \in DuIfNames |->
     "interfaces/interface[name=" \o if_name \o "]/state/counters"]

\* f"{prefix}/<leaf>" for the leaves generate_updates addresses in full.
DuFullPath ==
  [if_name \in DuIfNames |->
     [leaf \in {"last-update", "carrier-transitions", "in-multicast-pkts",
                "out-multicast-pkts"} |->
        du_get_path_prefix[if_name] \o "/" \o leaf]]

\* emit_update without a prefix: one update, addressed by path.
du_emit_update(path, value, ts_ns) ==
  [source |-> "router-edge", subscription_name |-> "snmp_interface_stats",
   timestamp |-> ts_ns, time |-> IsoTime(ts_ns),
   updates |-> << Update(path, value) >>]

\* emit_update with a prefix and a dict: one update per key of the dict,
\* addressed by the key.
du_emit_update_prefix(block, counters, ts_ns, prefix) ==
  [source |-> "router-edge", subscription_name |-> "snmp_interface_stats",
   timestamp |-> ts_ns, time |-> IsoTime(ts_ns), prefix |-> prefix,
   updates |-> [i \in DOMAIN block |-> Update(block[i], counters[block[i]])]]

\* A block in which every key comes twice.
du_block_repeated(keys, counters) ==
  SelectSeq(keys \o keys, LAMBDA k : k \in DOMAIN counters)

\* {k: counters[k] for k in keys if k in counters}, as the list of its keys.
du_block(keys, counters) ==
  SelectSeq(keys, LAMBDA k : k \in DOMAIN counters)

\* Lines 119-124 and 126-130: the error/discard and the broadcast block.
du_prefixed(keys, if_name, counters, ts_ns) ==
  LET block == du_block(keys, counters)
  IN IF block # << >>
     THEN << du_emit_update_prefix(block, counters, ts_ns,
                                   du_get_path_prefix[if_name]) >>
     ELSE << >>

\* The multicast counter going out as a single leaf whenever it is in the
\* block, and the rest of the block with it.
du_traffic_multicast_alone(keys, multicast, if_name, counters, ts_ns) ==
  LET block == du_block(keys, counters)
  IN IF block = << >> THEN << >>
     ELSE IF block[Len(block)] = multicast
     THEN << du_emit_update(DuFullPath[if_name][multicast],
                            counters[multicast], ts_ns) >>
     ELSE << du_emit_update_prefix(block, counters, ts_ns,
                                   du_get_path_prefix[if_name]) >>

\* Lines 132-137 and 139-144: the inbound and the outbound block; a block
\* that holds only the multicast counter goes out as a single leaf.
du_traffic(keys, multicast, if_name, counters, ts_ns) ==
  LET block == du_block(keys, counters)
  IN IF block = << >> THEN << >>
     ELSE IF Len(block) = 1 /\ block[1] = multicast
     THEN << du_emit_update(DuFullPath[if_name][multicast],
                            counters[multicast], ts_ns) >>
     ELSE << du_emit_update_prefix(block, counters, ts_ns,
                                   du_get_path_prefix[if_name]) >>

DU_ERROR_BLOCK == << "in-discards", "in-errors", "out-discards", "out-errors" >>

DU_BC_BLOCK == << "in-broadcast-pkts", "out-broadcast-pkts" >>

DU_IN_BLOCK ==
  << "in-octets", "in-pkts", "in-unicast-pkts", "in-multicast-pkts" >>

DU_OUT_BLOCK ==
  << "out-octets", "out-pkts", "out-unicast-pkts", "out-multicast-pkts" >>

\* A last-update batch addressed like a group: prefix and bare name.
du_last_update_prefixed(if_name, ts_ns) ==
  [source |-> "router-edge", subscription_name |-> "snmp_interface_stats",
   timestamp |-> ts_ns, time |-> IsoTime(ts_ns),
   prefix |-> du_get_path_prefix[if_name],
   updates |-> << Update("last-update", ts_ns) >>]

\* The last-update batch: lines 106-108.
du_last_update(if_name, ts_ns) ==
  du_emit_update(DuFullPath[if_name]["last-update"], ts_ns, ts_ns)

\* generate_updates, given what collect_counters returned.
du_generate_updates(if_name, counters, ts_ns) ==
  << du_last_update(if_name, ts_ns) >>
  \o (IF "carrier-transitions" \in DOMAIN counters
      THEN << du_emit_update(DuFullPath[if_name]["carrier-transitions"],
                             counters["carrier-transitions"], ts_ns) >>
      ELSE << >>)
  \o du_prefixed(DU_ERROR_BLOCK, if_name, counters, ts_ns)
  \o du_prefixed(DU_BC_BLOCK, if_name, counters, ts_ns)
  \o du_traffic(DU_IN_BLOCK, "in-multicast-pkts", if_name, counters, ts_ns)
  \o du_traffic(DU_OUT_BLOCK, "out-multicast-pkts", if_name, counters, ts_ns)

\* ------------------------------------------------------- the SNMP agent
\* A value the agent may return that int() rejects.
Unparsable == "ENDOFMIBVIEW"

\* The counters that move in the model; every other OID answers "0".
DuLive ==
  [if_name \in DuIfNames |->
     IF if_name = "Ethernet1"
     THEN {"in-multicast-pkts", "in-broadcast-pkts"}
     ELSE {"in-unicast-pkts"}]

\* What a moving counter may answer: Ethernet2's may be unparsable.
DuValues ==
  [if_name \in DuIfNames |->
     IF if_name = "Ethernet1" THEN CounterStr ELSE CounterStr \cup {Unparsable}]

\* The agent's answers to the gets of one collect_counters call: one answer
\* per key, or every get raising (the agent is unreachable).
DuAgent ==
  [if_name \in DuIfNames |->
     { [k \in DuKeys |->
          IF k \in DuLive[if_name] THEN Answer(live[k]) ELSE Answer("0")]
         : live \in [DuLive[if_name] -> DuValues[if_name]] }
     \cup { [k \in DuKeys |-> Raised] }]

\* Lines 69-73 on one set of answers: int() raises, or raw is built.
du_poll(agent, polled) ==
  [answers |-> agent, raises |-> du_int_raises(polled),
   raw |-> IF du_int_raises(polled) THEN << >> ELSE du_raw(polled)]

\* What lines 69-73 can come to in one call.
DuPolls ==
  [if_name \in DuIfNames |->
     { du_poll(agent, du_polled(agent)) : agent \in DuAgent[if_name] }]

\* A generate_updates call that returns: prev_counters is raw, the batches
\* are those of what collect_counters returned.
du_returns(if_name, raw, counters, ts_ns) ==
  [raises |-> FALSE, prev_counters |-> raw, counters |-> counters,
   updates |-> du_generate_updates(if_name, counters, ts_ns)]

\* Every monitor comparing with the prev_counters of monitor_eth1.
du_call_shared_prev_counters(if_name, poll, prev_counters, ts_ns) ==
  IF poll.raises
  THEN [raises |-> TRUE, prev_counters |-> prev_counters,
        counters |-> << >>, updates |-> << >>]
  ELSE du_returns(if_name, poll.raw,
                  du_collect_counters(poll.raw, du_prev_counters["Ethernet1"]),
                  ts_ns)

\* One monitor's generate_updates call: it raises out of collect_counters
\* before prev_counters is assigned, or stores raw and returns the batches.
du_call(if_name, poll, prev_counters, ts_ns) ==
  IF poll.raises
  THEN [raises |-> TRUE, prev_counters |-> prev_counters,
        counters |-> << >>, updates |-> << >>]
  ELSE du_returns(if_name, poll.raw,
                  du_collect_counters(poll.raw, prev_counters), ts_ns)

\* Ethernet2's batches ahead of Ethernet1's.
du_all_updates_eth2_first(updates) ==
  updates["Ethernet2"] \o updates["Ethernet1"]

\* Lines 183-185: all_updates, Ethernet1's batches then Ethernet2's.
du_all_updates(updates) == updates["Ethernet1"] \o updates["Ethernet2"]

DuNothing == [if_name \in DuIfNames |-> << >>]

DualStart ==
  /\ du_prev_counters = DuNothing
  /\ du_updates = DuNothing
  /\ du_written = FALSE
  /\ du_ts = 0
  /\ du_answers = DuNothing
  /\ du_counters = DuNothing
  /\ du_before = DuNothing
  /\ du_pc = "loop"
  /\ du_passes = 0
  /\ du_prev_raised = FALSE

IdleDual == DualStart

\* The latest pass of run's loop ended in the except clause of lines
\* 210-212: it took a timestamp and wrote nothing.
DuRaised == du_ts # 0 /\ ~du_written

\* The state after both calls of one iteration of SNMPDualMonitor.run.
du_iteration(a1, r1, a2, r2, ts_ns, written) ==
  /\ du_prev_counters' =
       ("Ethernet1" :> r1.prev_counters) @@ ("Ethernet2" :> r2.prev_counters)
  /\ du_updates' = ("Ethernet1" :> r1.updates) @@ ("Ethernet2" :> r2.updates)
  /\ du_counters' = ("Ethernet1" :> r1.counters) @@ ("Ethernet2" :> r2.counters)
  /\ du_answers' = ("Ethernet1" :> a1) @@ ("Ethernet2" :> a2)
  /\ du_written' = written
  /\ du_ts' = ts_ns
  /\ du_before' = du_prev_counters
  /\ du_passes' = 1 - du_passes
  /\ du_prev_raised' = DuRaised
  /\ UNCHANGED << program, othersDual >>

\* One iteration of run in which both generate_updates calls return:
\* all_updates is written to the file, Ethernet1's batches first.
DuIteration ==
  /\ program = "dual"
  /\ du_pc = "loop"
  /\ UNCHANGED du_pc
  /\ \E ts_ns \in 1..MaxTs, p1 \in DuPolls["Ethernet1"] :
       LET r1 == du_call("Ethernet1", p1, du_prev_counters["Ethernet1"], ts_ns)
       IN /\ ~r1.raises
          /\ \E p2 \in DuPolls["Ethernet2"] :
               LET r2 == du_call("Ethernet2", p2,
                                 du_prev_counters["Ethernet2"], ts_ns)
               IN /\ ~r2.raises
                  /\ du_iteration(p1.answers, r1, p2.answers, r2, ts_ns, TRUE)

\* The exception of a generate_updates call leaving run.
DuIterationRaisesOut ==
  /\ program = "dual"
  /\ du_pc = "loop"
  /\ du_pc' = "raised"
  /\ \E ts_ns \in 1..MaxTs, p1 \in DuPolls["Ethernet1"] :
       LET r1 == du_call("Ethernet1", p1, du_prev_counters["Ethernet1"], ts_ns)
           skipped == [raises |-> FALSE,
                       prev_counters |-> du_prev_counters["Ethernet2"],
                       counters |-> << >>, updates |-> << >>]
       IN \/ /\ r1.raises
             /\ du_iteration(p1.answers, r1, << >>, skipped, ts_ns, FALSE)
          \/ /\ ~r1.raises
             /\ \E p2 \in DuPolls["Ethernet2"] :
                  /\ p2.raises
                  /\ du_iteration(p1.answers, r1, p2.answers,
                                  du_call("Ethernet2", p2,
                                          du_prev_counters["Ethernet2"], ts_ns),
                                  ts_ns, FALSE)

\* One iteration in which a generate_updates call raises: the except clause
\* of run prints and sleeps, nothing is written. When Ethernet1's call
\* raises Ethernet2's is never made.
DuIterationRaises ==
  /\ program = "dual"
  /\ du_pc = "loop"
  /\ UNCHANGED du_pc
  /\ \E ts_ns \in 1..MaxTs, p1 \in DuPolls["Ethernet1"] :
       LET r1 == du_call("Ethernet1", p1, du_prev_counters["Ethernet1"], ts_ns)
           skipped == [raises |-> FALSE,
                       prev_counters |-> du_prev_counters["Ethernet2"],
                       counters |-> << >>, updates |-> << >>]
       IN \/ /\ r1.raises
             /\ du_iteration(p1.answers, r1, << >>, skipped, ts_ns, FALSE)
          \/ /\ ~r1.raises
             /\ \E p2 \in DuPolls["Ethernet2"] :
                  /\ p2.raises
                  /\ du_iteration(p1.answers, r1, p2.answers,
                                  du_call("Ethernet2", p2,
                                          du_prev_counters["Ethernet2"], ts_ns),
                                  ts_ns, FALSE)

\* KeyboardInterrupt during time.sleep or before the first generate_updates
\* call of a pass has assigned prev_counters: line 207 breaks out of the
\* loop.
DuInterrupted ==
  /\ program = "dual"
  /\ du_pc = "loop"
  /\ du_pc' = "done"
  /\ UNCHANGED << du_prev_counters, du_updates, du_written, du_ts, du_answers,
                  du_counters, du_before, du_passes, du_prev_raised >>
  /\ UNCHANGED << program, othersDual >>

NextDual == DuIteration \/ DuIterationRaises \/ DuInterrupted

\* ======================================================================
\* ifaces-stats-snmp-v2.py : SNMPMonitorGNMICompat
\* ======================================================================
\* OID_MAP, get_counter, collect_counters and emit_update of this script are,
\* statement for statement, those of ifaces-stats-dual-snmp.py; the operators
\* du_polled, du_int_raises, du_raw, du_collect_counters and
\* du_generate_updates model both copies. What differs is run: one monitor,
\* for Ethernet2, whose batches are built inline and written one by one.

\* The prefix literal of run.
V2_PREFIX == "interfaces/interface[name=Ethernet2]/state/counters"

\* Lines 136-200: what one iteration of run writes, in order, given what
\* collect_counters returned: the batches of generate_updates with the
\* paths of Ethernet2 spelled out.
v2_objects(counters, ts_ns) == du_generate_updates("Ethernet2", counters, ts_ns)

\* ------------------------------------------------------- the SNMP agent
\* The counters that move in the model; every other OID answers "0".
V2Live == {"in-multicast-pkts", "in-broadcast-pkts", "in-errors"}

\* What a moving counter may answer: in-broadcast-pkts may be unparsable.
V2Values ==
  [k \in V2Live |->
     IF k = "in-broadcast-pkts" THEN CounterStr \cup {Unparsable}
     ELSE CounterStr]

\* The agent's answers to the gets of one collect_counters call.
V2Agent ==
  { [k \in DuKeys |-> IF k \in V2Live THEN Answer(live[k]) ELSE Answer("0")]
      : live \in {f \in [V2Live -> CounterStr \cup {Unparsable}] :
                    \A k \in V2Live : f[k] \in V2Values[k]} }
  \cup { [k \in DuKeys |-> Raised] }

\* What lines 85-91 can come to in one call.
V2Polls == { du_poll(agent, du_polled(agent)) : agent \in V2Agent }

V2Start ==
  /\ v2_prev_counters = << >>
  /\ v2_written = << >>
  /\ v2_ts = 0
  /\ v2_answers = << >>
  /\ v2_counters = << >>
  /\ v2_before = << >>
  /\ v2_pc = "loop"
  /\ v2_passes = 0
  /\ v2_prev_raised = FALSE

IdleV2 == V2Start

\* The latest pass of run's loop ended in the except clause of lines
\* 219-221: it took a timestamp and dumped nothing.
V2Raised == v2_ts # 0 /\ v2_written = << >> /\ v2_pc = "loop"

\* The rest of an iteration once collect_counters has returned counters and
\* stored raw.
v2_iteration(answers, raw, counters, ts_ns) ==
  /\ v2_prev_counters' = raw
  /\ v2_counters' = counters
  /\ v2_written' = v2_objects(counters, ts_ns)
  /\ v2_ts' = ts_ns
  /\ v2_answers' = answers
  /\ v2_before' = v2_prev_counters
  /\ v2_passes' = 1 - v2_passes
  /\ v2_prev_raised' = V2Raised
  /\ UNCHANGED << v2_pc, program, othersV2 >>

\* One iteration of run that completes.
V2Iteration ==
  /\ program = "v2"
  /\ v2_pc = "loop"
  /\ \E ts_ns \in 1..MaxTs, p \in V2Polls :
       /\ ~p.raises
       /\ v2_iteration(p.answers, p.raw,
                       du_collect_counters(p.raw, v2_prev_counters), ts_ns)

\* One iteration in which collect_counters raises: the except clause prints
\* and sleeps; nothing was written yet and prev_counters was not assigned.
V2IterationRaises ==
  /\ program = "v2"
  /\ v2_pc = "loop"
  /\ \E ts_ns \in 1..MaxTs, p \in V2Polls :
       /\ p.raises
       /\ v2_written' = << >>
       /\ v2_counters' = << >>
       /\ v2_ts' = ts_ns
       /\ v2_answers' = p.answers
       /\ v2_before' = v2_prev_counters
       /\ v2_passes' = 1 - v2_passes
       /\ v2_prev_raised' = V2Raised
       /\ UNCHANGED << v2_prev_counters, v2_pc, program, othersV2 >>

\* KeyboardInterrupt during time.sleep, or in the next iteration before
\* collect_counters has assigned prev_counters: the except clause of lines
\* 216-218 breaks out of the loop, the iteration that was interrupted has
\* written nothing.
V2InterruptedWaiting ==
  /\ program = "v2"
  /\ v2_pc = "loop"
  /\ v2_pc' = "done"
  /\ UNCHANGED << v2_prev_counters, v2_written, v2_ts, v2_answers,
                  v2_counters, v2_before, v2_passes, v2_prev_raised >>
  /\ UNCHANGED << program, othersV2 >>

\* KeyboardInterrupt after collect_counters returned and before the last
\* json.dump of the iteration: the objects dumped so far are in the file,
\* which the with statement closes after the break.
V2InterruptedWriting ==
  /\ program = "v2"
  /\ v2_pc = "loop"
  /\ \E ts_ns \in 1..MaxTs, p \in V2Polls :
       /\ ~p.raises
       /\ LET counters == du_collect_counters(p.raw, v2_prev_counters)
              objects == v2_objects(counters, ts_ns)
          IN  /\ \E k \in 0..(Len(objects) - 1) :
                   v2_written' = SubSeq(objects, 1, k)
              /\ v2_counters' = counters
       /\ v2_prev_counters' = p.raw
       /\ v2_ts' = ts_ns
       /\ v2_answers' = p.answers
  /\ v2_before' = v2_prev_counters
  /\ v2_passes' = 1 - v2_passes
  /\ v2_prev_raised' = V2Raised
  /\ v2_pc' = "done"
  /\ UNCHANGED << program, othersV2 >>

NextV2 ==
  \/ V2Iteration
  \/ V2IterationRaises
  \/ V2InterruptedWaiting
  \/ V2InterruptedWriting

\* ======================================================================
\* if-stats-snmp-get.py : GNMIFormatCollector
\* ======================================================================

\* INTERFACES in the order of the dict literal; Ethernet1 has ifIndex 1.
GT_INTERFACES == << "Ethernet1", "Ethernet2" >>

GtIfNames == Range(GT_INTERFACES)

\* The metric names of OID_TO_METRIC in the order of the dict literal.
GT_OID_TO_METRIC ==
  << "in-octets", "out-octets", "in-unicast-pkts", "out-unicast-pkts",
     "in-multicast-pkts", "out-multicast-pkts", "in-discards", "out-discards",
     "in-errors", "out-errors", "in-fcs-errors", "in-pkts-ipv6",
     "out-pkts-ipv6" >>

GtMetrics == Range(GT_OID_TO_METRIC)

\* Lines 105-108: oid_list, one OID per interface and per entry of
\* OID_TO_METRIC, named here by the interface and the metric it stands for.
gt_oid_list ==
  [n \in 1..(Len(GT_INTERFACES) * Len(GT_OID_TO_METRIC)) |->
     [if_name |-> GT_INTERFACES[((n - 1) \div Len(GT_OID_TO_METRIC)) + 1],
      metric |-> GT_OID_TO_METRIC[((n - 1) % Len(GT_OID_TO_METRIC)) + 1]]]

\* Lines 124-131: int(result.value), 0 when the value is empty,
\* NOSUCHINSTANCE or no decimal number.
gt_value(result) ==
  IF result.value # "" /\ result.value # "NOSUCHINSTANCE"
  THEN IF result.value \in DOMAIN IntOf THEN IntOf[result.value] ELSE 0
  ELSE 0

\* Lines 115-133: data, as a function of the results of the GetRequest.
gt_collect_snmp_data(results) ==
  [if_name \in GtIfNames |->
     [metric_name \in GtMetrics |->
        LET if_idx == (CHOOSE i \in DOMAIN GT_INTERFACES :
                         GT_INTERFACES[i] = if_name) - 1
            metric_idx == (CHOOSE i \in DOMAIN GT_OID_TO_METRIC :
                             GT_OID_TO_METRIC[i] = metric_name) - 1
            result_idx == (if_idx * Len(GT_OID_TO_METRIC)) + metric_idx
        IN IF result_idx < Len(results)
           THEN gt_value(results[result_idx + 1])
           ELSE 0]]

\* get_gnmi_timestamps: the reading of the clock in nanoseconds less
\* counter % 1000, counter being already incremented; one tick of the
\* model's clock is 10 ms.
gt_timestamp(now, counter) == now * 10000000 - (counter % 1000)

GtPrefix ==
  [if_name \in GtIfNames |->
     "interfaces/interface[name=" \o if_name \o "]/state/counters"]

\* The key of the values dict of an individual object: the path without
\* the interface name.
GtValuesKey ==
  [metric \in GtMetrics |-> "interfaces/interface/state/counters/" \o metric]

GT_MAIN_METRICS ==
  << "in-octets", "out-octets", "in-unicast-pkts", "out-unicast-pkts",
     "in-multicast-pkts", "out-multicast-pkts" >>

GT_INDIVIDUAL_METRICS ==
  << "in-discards", "out-discards", "in-errors", "out-errors" >>

GT_GROUP2_METRICS ==
  << "in-discards", "out-discards", "in-errors", "out-errors",
     "in-fcs-errors", "in-pkts-ipv6", "out-pkts-ipv6" >>

\* An object with prefix: one update per metric of the list that is in the
\* interface's data; no object when there is none.
gt_prefixed(metrics, if_name, d, timestamp, iso_time) ==
  LET present == SelectSeq(metrics, LAMBDA m : m \in DOMAIN d)
  IN IF present = << >> THEN << >>
     ELSE << [source |-> "router-edge",
              subscription_name |-> "eos_interface_stats",
              timestamp |-> timestamp, time |-> iso_time,
              prefix |-> GtPrefix[if_name],
              updates |-> [i \in DOMAIN present |->
                             Update(present[i], d[present[i]])]] >>

\* last_values.get(f"{if_name}_{metric}") is None or differs from the value.
gt_changed(if_name, metric, value, last_values) ==
  \/ << if_name, metric >> \notin DOMAIN last_values
  \/ value # last_values[<< if_name, metric >>]

\* Lines 185-208: one object without prefix per individual metric that
\* changed or is seen for the first time.
gt_individual(if_name, d, last_values, timestamp, iso_time) ==
  LET emitted == SelectSeq(GT_INDIVIDUAL_METRICS,
                   LAMBDA m : m \in DOMAIN d
                              /\ gt_changed(if_name, m, d[m], last_values))
  IN [i \in DOMAIN emitted |->
        [source |-> "router-edge", subscription_name |-> "eos_interface_stats",
         timestamp |-> timestamp, time |-> iso_time,
         updates |-> << [Path |-> GtPrefix[if_name] \o "/" \o emitted[i],
                         values |-> [key |-> GtValuesKey[emitted[i]],
                                     val |-> d[emitted[i]]]] >>]]

\* Every object of the interface with timestamp_main.
gt_interface_objects_one_timestamp(if_name, d, last_values, timestamp_main, iso_time) ==
  gt_prefixed(GT_MAIN_METRICS, if_name, d, timestamp_main, iso_time)
  \o gt_individual(if_name, d, last_values, timestamp_main, iso_time)
  \o gt_prefixed(GT_GROUP2_METRICS, if_name, d, timestamp_main, iso_time)

\* Lines 154-232 for one interface that has data; timestamp_main is taken
\* with the counter already incremented.
gt_interface_objects(if_name, d, last_values, timestamp_main, iso_time) ==
  gt_prefixed(GT_MAIN_METRICS, if_name, d, timestamp_main, iso_time)
  \o gt_individual(if_name, d, last_values, timestamp_main - 1000000, iso_time)
  \o gt_prefixed(GT_GROUP2_METRICS, if_name, d, timestamp_main - 500000,
                 iso_time)

\* Line 155: if if_name in data and data[if_name].
gt_has_data(data, if_name) == if_name \in DOMAIN data /\ data[if_name] # << >>

\* self.counter once the first n interfaces have been gone through.
gt_counter_after(n, data, counter) ==
  counter + Cardinality({i \in 1..n : gt_has_data(data, GT_INTERFACES[i])})

\* get_gnmi_timestamps as called for the n-th interface, nows[n] being the
\* reading of the clock in that call: the counter is incremented first.
gt_get_gnmi_timestamps(n, data, counter, nows) ==
  [timestamp |-> gt_timestamp(nows[n], gt_counter_after(n, data, counter)),
   time |-> IsoTime(nows[n])]

\* What the calls of get_gnmi_timestamps of one generate_gnmi_objects
\* returned, in the order of the calls (line 157, once per interface that
\* has data).
gt_stamps_of(data, counter, nows) ==
  LET called == SelectSeq([n \in DOMAIN GT_INTERFACES |-> n],
                          LAMBDA n : gt_has_data(data, GT_INTERFACES[n]))
  IN  [i \in DOMAIN called |->
         gt_get_gnmi_timestamps(called[i], data, counter, nows)]

RECURSIVE gt_objects_from(_, _, _, _, _)
\* The objects of the interfaces from the n-th on.
gt_objects_from(n, data, last_values, counter, nows) ==
  IF n > Len(GT_INTERFACES) THEN << >>
  ELSE (IF gt_has_data(data, GT_INTERFACES[n])
        THEN gt_interface_objects(GT_INTERFACES[n], data[GT_INTERFACES[n]],
               last_values,
               gt_get_gnmi_timestamps(n, data, counter, nows).timestamp,
               gt_get_gnmi_timestamps(n, data, counter, nows).time)
        ELSE << >>)
       \o gt_objects_from(n + 1, data, last_values, counter, nows)

\* Lines 234-236: sync-response when the counter is a multiple of ten.
GtSync == [sync_response |-> TRUE]

\* generate_gnmi_objects: the list it returns.
gt_generate_gnmi_objects(data, last_values, counter, nows) ==
  gt_objects_from(1, data, last_values, counter, nows)
  \o (IF gt_counter_after(Len(GT_INTERFACES), data, counter) % 10 = 0
      THEN << GtSync >> ELSE << >>)

\* generate_gnmi_objects: last_values as it leaves it (line 208).
gt_next_last_values(data, last_values) ==
  LET written == {key \in GtIfNames \X Range(GT_INDIVIDUAL_METRICS) :
                    /\ gt_has_data(data, key[1])
                    /\ key[2] \in DOMAIN data[key[1]]}
  IN [key \in DOMAIN last_values \cup written |->
        IF key \in written THEN data[key[1]][key[2]] ELSE last_values[key]]

\* ------------------------------------------------------- the SNMP agent
\* The counters that move in the model; every other OID answers "0" or has
\* no instance.
GtLive ==
  { [if_name |-> "Ethernet1", metric |-> "in-errors"],
    [if_name |-> "Ethernet2", metric |-> "in-discards"],
    [if_name |-> "Ethernet2", metric |-> "in-octets"] }

\* The results of one GetRequest: one SNMPVariable per OID of oid_list.
GtAgent ==
  { [n \in DOMAIN gt_oid_list |->
       IF gt_oid_list[n] \in GtLive THEN Answer(live[gt_oid_list[n]]) ELSE dead]
      : live \in [GtLive -> CounterStr],
        dead \in {Answer("0"), Answer("NOSUCHINSTANCE")} }

\* What collect_snmp_data can return when the GetRequest is answered.
GtPolls == {gt_collect_snmp_data(results) : results \in GtAgent}

GetStart ==
  /\ gt_pc = "start"
  /\ gt_counter = 0
  /\ gt_last_values = << >>
  /\ gt_objects = << >>
  /\ gt_data = << >>
  /\ gt_now = 1
  /\ gt_cycles = 0
  /\ gt_stamps = << >>
  /\ gt_stamp_before = 0

IdleGet == GetStart

\* The readings of the clock in the calls of one cycle, one per interface:
\* the clock does not go backwards.
GtReadings(now) ==
  { nows \in [DOMAIN GT_INTERFACES -> now..GtMaxNow] :
      \A i, j \in DOMAIN GT_INTERFACES : i <= j => nows[i] <= nows[j] }

\* The timestamp of the last call of get_gnmi_timestamps so far.
GtLastStamp ==
  IF gt_stamps = << >> THEN gt_stamp_before
  ELSE gt_stamps[Len(gt_stamps)].timestamp

\* run_continuous: connect succeeds and the loop is entered.
GtConnect ==
  /\ program = "get"
  /\ gt_pc = "start"
  /\ gt_pc' = "loop"
  /\ UNCHANGED << gt_counter, gt_last_values, gt_objects, gt_data, gt_now,
                  gt_cycles, gt_stamps, gt_stamp_before >>
  /\ UNCHANGED << program, othersGet >>

\* run_continuous: connect fails and run_continuous returns.
GtConnectFails ==
  /\ program = "get"
  /\ gt_pc = "start"
  /\ gt_pc' = "done"
  /\ UNCHANGED << gt_counter, gt_last_values, gt_objects, gt_data, gt_now,
                  gt_cycles, gt_stamps, gt_stamp_before >>
  /\ UNCHANGED << program, othersGet >>

\* run_collection_cycle with data: the objects are generated and handed to
\* append_to_file, which catches whatever the write raises.
GtCycle ==
  /\ program = "get"
  /\ gt_pc = "loop"
  /\ gt_counter < GtMaxCounter
  /\ \E data \in GtPolls, nows \in GtReadings(gt_now) :
       /\ gt_data' = data
       /\ gt_objects' =
            gt_generate_gnmi_objects(data, gt_last_values, gt_counter, nows)
       /\ gt_last_values' = gt_next_last_values(data, gt_last_values)
       /\ gt_counter' = gt_counter_after(Len(GT_INTERFACES), data, gt_counter)
       /\ gt_stamps' = gt_stamps_of(data, gt_counter, nows)
       /\ gt_now' = nows[Len(GT_INTERFACES)]
  /\ gt_cycles' = gt_cycles + 1
  /\ gt_stamp_before' = GtLastStamp
  /\ UNCHANGED gt_pc
  /\ UNCHANGED << program, othersGet >>

\* run_collection_cycle without data: the GetRequest raised,
\* collect_snmp_data returned {} and the cycle returns early.
GtGetRaises ==
  /\ program = "get"
  /\ gt_pc = "loop"
  /\ gt_counter < GtMaxCounter
  /\ gt_data' = << >>
  /\ gt_objects' = << >>
  /\ gt_stamps' = << >>
  /\ gt_stamp_before' = GtLastStamp
  /\ UNCHANGED << gt_pc, gt_counter, gt_last_values, gt_now, gt_cycles >>
  /\ UNCHANGED << program, othersGet >>

NextGet == GtConnect \/ GtConnectFails \/ GtCycle \/ GtGetRaises

\* ======================================================================
\* if-stats-snmp-get-optimizado.py : process_results on its inputs
\* ======================================================================

\* The OIDs whose answer varies, and what the agent may answer for each:
\* a counter, an empty value, NOSUCHINSTANCE, or a string that is no
\* integer. Every other OID answers "0".
PrLive ==
  { << "Ethernet1", "in-octets" >>, << "Ethernet1", "in-errors" >>,
    << "Ethernet2", "out-octets" >> }

PrValues == CounterStr \cup {"", "NOSUCHINSTANCE", "NOSUCHOBJECT"}

\* What session.get(oid_list) may return, one result per OID of the list.
PrAgent ==
  LET oid_list == opt_build_single_oid_list
      place(n) == << opt_if_name(oid_list[n]), opt_metric_name(oid_list[n]) >>
      live == {n \in DOMAIN oid_list : place(n) \in PrLive}
  IN  { [n \in DOMAIN oid_list |-> IF n \in live THEN pick[n] ELSE "0"]
          : pick \in [live -> PrValues] }

ResultsStart ==
  /\ pr_results = << >>
  /\ pr_data = << >>

IdleResults == ResultsStart

\* collect_single_request, lines 120-134, for one answer of the agent.
PrCollect ==
  /\ program = "process_results"
  /\ \E results \in PrAgent :
       /\ pr_results' = results
       /\ pr_data' = opt_collect_single_request(results)
  /\ UNCHANGED << program, othersResults >>

NextResults == PrCollect

\* ======================================================================
\* capturas/analyze-pcap.py
\* ======================================================================

\* The quotient a / b rounded to 1/scale, in units of 1/scale: round(x, 1)
\* and the format .1f with scale 10, round(x, 2) with scale 100. A tie goes
\* up.
ap_round(a, b, scale) == (2 * scale * a + b) \div (2 * b)

ApMin(times) == CHOOSE t \in Range(times) : \A u \in Range(times) : t <= u

ApMax(times) == CHOOSE t \in Range(times) : \A u \in Range(times) : u <= t

\* What the three tshark runs of one analysis print: the number of frames
\* the filter matches, the sum of their frame.len and their
\* frame.time_relative in capture order. A run that fails prints nothing:
\* no bytes, no times.
ApTimes(frames) ==
  {<< >>} \cup {t \in [1..frames -> 0..ApMaxTime] :
                  \A i \in 1..(frames - 1) : t[i] <= t[i + 1]}

ApBytes(frames) == {0} \cup frames..ApMaxBytes

ApCaptures ==
  {[frames |-> 0, bytes |-> 0, times |-> << >>]}
  \cup UNION { {[frames |-> n, bytes |-> b, times |-> t]
                  : b \in ApBytes(n), t \in ApTimes(n)}
               : n \in 1..ApMaxFrames }

\* The namedtuple of lines 17-20; avg_bytes_per_msg in tenths, msgs_per_sec
\* in hundredths.
Metrics(protocol, duration, frames, bytes, avg, rate, first) ==
  [protocol |-> protocol, duration_sec |-> duration, total_frames |-> frames,
   total_bytes |-> bytes, avg_bytes_per_msg |-> avg, msgs_per_sec |-> rate,
   first_msg_latency_sec |-> first]

\* analyze_snmp (lines 34-70) and analyze_gnmi (lines 72-116), which differ
\* in the filter and the protocol name only.
ap_analyze(protocol, capture) ==
  IF capture.frames = 0
  THEN Metrics(protocol, 0, 0, 0, 0, 0, 0)
  ELSE LET times == capture.times
           duration == IF times # << >> THEN ApMax(times) - ApMin(times)
                       ELSE 0
           first_msg_latency == IF times # << >> THEN times[1] ELSE 0
           msgs_per_sec == IF duration > 0
                           THEN ap_round(capture.frames, duration, 100)
                           ELSE 0
           avg_bytes == ap_round(capture.bytes, capture.frames, 10)
       IN  Metrics(protocol, duration, capture.frames, capture.bytes,
                   avg_bytes, msgs_per_sec, first_msg_latency)

\* The four quotients of lines 131-134, divisors in the order Python
\* evaluates them.
ap_divisors(gnmi) ==
  << gnmi.total_frames, gnmi.total_bytes, gnmi.avg_bytes_per_msg,
     gnmi.msgs_per_sec >>

\* Python's / raises ZeroDivisionError on a zero divisor.
ap_zero_division(divisors) == \E n \in DOMAIN divisors : divisors[n] = 0

\* The six rows of lines 129-136.
ap_rows(snmp, gnmi) ==
  << << "Duración (s)", snmp.duration_sec, gnmi.duration_sec, "-" >>,
     << "Frames totales", snmp.total_frames, gnmi.total_frames,
        ap_round(snmp.total_frames, gnmi.total_frames, 10) >>,
     << "Bytes totales", snmp.total_bytes, gnmi.total_bytes,
        ap_round(snmp.total_bytes, gnmi.total_bytes, 10) >>,
     << "Bytes/frame", snmp.avg_bytes_per_msg, gnmi.avg_bytes_per_msg,
        ap_round(snmp.avg_bytes_per_msg, gnmi.avg_bytes_per_msg, 10) >>,
     << "Frames/segundo", snmp.msgs_per_sec, gnmi.msgs_per_sec,
        ap_round(snmp.msgs_per_sec, gnmi.msgs_per_sec, 10) >>,
     << "Latencia primer dato (s)", snmp.first_msg_latency_sec,
        gnmi.first_msg_latency_sec, "-" >> >>

\* One part of what is printed.
ApPart(name) == [part |-> name]

\* print_table, lines 118-140: the header is printed before rows is built,
\* the rows only once all four quotients are there.
ap_print_table(snmp, gnmi) ==
  IF ap_zero_division(ap_divisors(gnmi))
  THEN [raises |-> TRUE, printed |-> << ApPart("header") >>]
  ELSE [raises |-> FALSE,
        printed |-> << ApPart("header"),
                       [part |-> "rows", rows |-> ap_rows(snmp, gnmi)] >>]

\* main, lines 149-169, on what the two analyses returned: what is printed,
\* what save_csv writes, and whether an exception leaves main.
ap_main(snmp, gnmi) ==
  IF snmp.total_frames = 0 /\ gnmi.total_frames = 0
  THEN [raises |-> FALSE, stdout |-> << ApPart("error") >>, csv |-> << >>]
  ELSE LET table == ap_print_table(snmp, gnmi)
       IN  IF table.raises
           THEN [raises |-> TRUE, stdout |-> table.printed, csv |-> << >>]
           ELSE IF snmp.total_frames > 0 /\ gnmi.total_frames > 0
           THEN IF ap_zero_division(<< gnmi.total_bytes >>)
                THEN [raises |-> TRUE,
                      stdout |-> table.printed \o << ApPart("exported") >>,
                      csv |-> << snmp, gnmi >>]
                ELSE [raises |-> FALSE,
                      stdout |-> table.printed
                                   \o << ApPart("exported"),
                                         ApPart("findings") >>,
                      csv |-> << snmp, gnmi >>]
           ELSE [raises |-> FALSE,
                 stdout |-> table.printed \o << ApPart("exported") >>,
                 csv |-> << snmp, gnmi >>]

PcapStart ==
  /\ ap_pc = "start"
  /\ ap_snmp = << >>
  /\ ap_gnmi = << >>
  /\ ap_stdout = << >>
  /\ ap_csv = << >>

IdlePcap == PcapStart

\* One run of main on the two capture files.
ApMain ==
  /\ program = "analyze_pcap"
  /\ ap_pc = "start"
  /\ \E snmp_pcap \in ApCaptures, gnmi_pcap \in ApCaptures :
       LET snmp_metrics == ap_analyze("SNMP", snmp_pcap)
           gnmi_metrics == ap_analyze("gNMI", gnmi_pcap)
           run == ap_main(snmp_metrics, gnmi_metrics)
       IN  /\ ap_snmp' = snmp_metrics
           /\ ap_gnmi' = gnmi_metrics
           /\ ap_stdout' = run.stdout
           /\ ap_csv' = run.csv
           /\ ap_pc' = IF run.raises THEN "raised" ELSE "returned"
  /\ UNCHANGED << program, othersPcap >>

NextPcap == ApMain

\* ======================================================================
\* Specifications: one per script
\* ======================================================================

vars ==
  << program, varsV3, varsMulti, varsV6, varsOpt, varsDual, varsV2, varsGet,
     varsResults, varsPcap >>

\* ifaces-stats-snmp-v3.py alone.
InitV3 ==
  /\ program = "v3"
  /\ V3Start /\ IdleMulti /\ IdleV6 /\ IdleOpt /\ IdleDual /\ IdleV2 /\ IdleGet /\ IdleResults
  /\ IdlePcap

SpecV3 == InitV3 /\ [][NextV3]_vars

\* if-stats-snmp-multi.py alone.
InitMulti ==
  /\ program = "multi"
  /\ MultiStart /\ IdleV3 /\ IdleV6 /\ IdleOpt /\ IdleDual /\ IdleV2 /\ IdleGet /\ IdleResults
  /\ IdlePcap

SpecMulti == InitMulti /\ [][NextMulti]_vars

\* ifaces-stats-snmp-ipv6.py alone.
InitV6 ==
  /\ program = "ipv6"
  /\ V6Start /\ IdleV3 /\ IdleMulti /\ IdleOpt /\ IdleDual /\ IdleV2 /\ IdleGet /\ IdleResults
  /\ IdlePcap

SpecV6 == InitV6 /\ [][NextV6]_vars

\* if-stats-snmp-get-optimizado.py alone.
InitOpt ==
  /\ program = "optimizado"
  /\ OptStart /\ IdleV3 /\ IdleMulti /\ IdleV6 /\ IdleDual /\ IdleV2 /\ IdleGet /\ IdleResults
  /\ IdlePcap

SpecOpt == InitOpt /\ [][NextOpt]_vars

\* if-stats-snmp-get-optimizado.py from its start and from its 99th cycle.
InitOptLong ==
  \/ InitOpt
  \/ /\ program = "optimizado"
     /\ OptLate /\ IdleV3 /\ IdleMulti /\ IdleV6 /\ IdleDual /\ IdleV2
     /\ IdleGet /\ IdleResults
  /\ IdlePcap

SpecOptLong == InitOptLong /\ [][NextOpt]_vars

\* ifaces-stats-dual-snmp.py alone.
InitDual ==
  /\ program = "dual"
  /\ DualStart /\ IdleV3 /\ IdleMulti /\ IdleV6 /\ IdleOpt /\ IdleV2 /\ IdleGet /\ IdleResults
  /\ IdlePcap

SpecDual == InitDual /\ [][NextDual]_vars

\* ifaces-stats-snmp-v2.py alone.
InitV2 ==
  /\ program = "v2"
  /\ V2Start /\ IdleV3 /\ IdleMulti /\ IdleV6 /\ IdleOpt /\ IdleDual /\ IdleGet /\ IdleResults
  /\ IdlePcap

SpecV2 == InitV2 /\ [][NextV2]_vars

\* if-stats-snmp-get.py alone.
InitGet ==
  /\ program = "get"
  /\ GetStart /\ IdleV3 /\ IdleMulti /\ IdleV6 /\ IdleOpt /\ IdleDual /\ IdleV2 /\ IdleResults
  /\ IdlePcap

SpecGet == InitGet /\ [][NextGet]_vars

\* process_results of if-stats-snmp-get-optimizado.py on a result list.
InitResults ==
  /\ program = "process_results"
  /\ ResultsStart /\ IdleV3 /\ IdleMulti /\ IdleV6 /\ IdleOpt /\ IdleDual
  /\ IdleV2 /\ IdleGet /\ IdlePcap

SpecResults == InitResults /\ [][NextResults]_vars

\* capturas/analyze-pcap.py alone.
InitPcap ==
  /\ program = "analyze_pcap"
  /\ PcapStart /\ IdleV3 /\ IdleMulti /\ IdleV6 /\ IdleOpt /\ IdleDual
  /\ IdleV2 /\ IdleGet /\ IdleResults

SpecPcap == InitPcap /\ [][NextPcap]_vars

\* The scripts that synthesise last-update, each behaviour being a run of
\* one of them.
InitLastUpdate == InitDual \/ InitV3 \/ InitV6

NextLastUpdate == NextDual \/ NextV3 \/ NextV6

SpecLastUpdate == InitLastUpdate /\ [][NextLastUpdate]_vars

\* The scripts that group counters under a prefix, each behaviour being a
\* run of one of them.
InitGrouped == InitDual \/ InitV2

NextGrouped == NextDual \/ NextV2

SpecGrouped == InitGrouped /\ [][NextGrouped]_vars

\* The two polling loops on links that carry no traffic, as the loops are
\* scheduled. Whether a pass is made does not depend on what the counters
\* read, so the agent's answers are kept to those of an idle link: every
\* counter reads "0", a moving one may be unparsable, or every get raises.
IdleAnswers(answers) ==
  \A k \in DOMAIN answers :
     answers[k] \in {Raised, Answer("0"), Answer(Unparsable)}

IdleLink ==
  /\ \A if_name \in DuIfNames : IdleAnswers(du_answers[if_name])
  /\ IdleAnswers(v2_answers)

\* A pass of a loop that goes on to the next pass: time.sleep returns and
\* `while True` begins the next pass, after the try body as after the
\* except clause, so a pass that stays possible is eventually made.
LoopPass ==
  /\ DuIteration \/ DuIterationRaises \/ V2Iteration \/ V2IterationRaises
  /\ IdleLink'

LoopInterrupted ==
  \/ DuInterrupted
  \/ V2InterruptedWaiting
  \/ V2InterruptedWriting /\ IdleLink'

NextLoops == LoopPass \/ LoopInterrupted

SpecLoops == InitGrouped /\ [][NextLoops]_vars /\ WF_vars(LoopPass)

\* The scripts that put several updates in one batch, each behaviour being
\* a run of one of them.
InitBatched == InitDual \/ InitOpt

NextBatched == NextDual \/ NextOpt

SpecBatched == InitBatched /\ [][NextBatched]_vars

\* The scripts that poll one OID per get, each behaviour being a run of one
\* of them.
InitPerOid == InitV3 \/ InitDual

NextPerOid == NextV3 \/ NextDual

SpecPerOid == InitPerOid /\ [][NextPerOid]_vars

\* The on-change scripts, each behaviour being a run of one of them.
InitOnChange == InitV3 \/ InitMulti \/ InitV6

NextOnChange == NextV3 \/ NextMulti \/ NextV6

SpecOnChange == InitOnChange /\ [][NextOnChange]_vars

\* The scripts that compute in-pkts and out-pkts, each behaviour being a run
\* of one of them.
InitTotals == InitOpt \/ InitMulti

NextTotals == NextOpt \/ NextMulti

SpecTotals == InitTotals /\ [][NextTotals]_vars

\* ======================================================================
\* Claims about ifaces-stats-snmp-v3.py
\* ======================================================================

\* A generate_updates call has completed (its list always holds last-update).
V3Called == program = "v3" /\ v3_updates # << >>

\* Leaves with an update in the list returned by the last call.
V3Out == V3Emitted(v3_if_name, v3_updates)

\* The zero-suppressed set as the claims name it.
V3ZeroSuppressed ==
  {"in-discards", "out-discards", "in-errors", "out-errors",
   "in-broadcast-pkts", "out-broadcast-pkts"}

\* C1: after every completed generate_updates call, prev_values equals the
\* snapshot collected in that call on every leaf of OID_MAP, emitted or not.
C1_RetainedEqualsSnapshot ==
  V3Called => \A leaf \in V3Leaves : v3_prev_values[leaf] = v3_current[leaf]

\* C1 witness: a call in which one leaf changed and was emitted while another
\* changed to "0" and was suppressed by should_emit; both are retained.
C1_Witness ==
  /\ V3Called
  /\ "in-octets" \in V3Out
  /\ v3_polled_before["in-errors"] = "1"
  /\ v3_current["in-errors"] = "0"
  /\ "in-errors" \notin V3Out
  /\ v3_prev_values["in-errors"] = "0"

\* C3: a zero-suppressed leaf is emitted in a cycle exactly when its value is
\* not "0" and differs from the value polled in the cycle before (None before
\* the first cycle); the value last emitted plays no part.  So v, "0", v emits
\* v, nothing, v.
C3_ChangedAgainstPreviousCycle ==
  V3Called =>
    \A leaf \in V3ZeroSuppressed :
      leaf \in V3Out <=>
        (v3_current[leaf] # "0" /\ v3_current[leaf] # v3_polled_before[leaf])

\* C3 witness: the third cycle of v, "0", v: the cycle before polled "0", the
\* value last emitted before this cycle is v itself, and v is emitted again.
C3_Witness ==
  /\ V3Called
  /\ v3_polled_before["in-errors"] = "0"
  /\ v3_current["in-errors"] = "1"
  /\ v3_last_emitted_before["in-errors"] = "1"
  /\ "in-errors" \in V3Out

\* C8: a zero-suppressed leaf whose new value is "0" has no update in any
\* cycle, the first one included.
C8_ZeroNeverEmitted ==
  V3Called =>
    \A leaf \in V3ZeroSuppressed :
      v3_current[leaf] = "0" => leaf \notin V3Out

\* C8 witness: the first cycle, where every zero-suppressed leaf is a first
\* observation, "0" on two of them and suppressed, while in-octets is emitted.
C8_Witness ==
  /\ V3Called
  /\ v3_polled_before = V3NoneMap
  /\ v3_current["in-errors"] = "0"
  /\ v3_current["in-broadcast-pkts"] = "0"
  /\ "in-errors" \notin V3Out
  /\ "in-broadcast-pkts" \notin V3Out
  /\ "in-octets" \in V3Out


\* -------------------------------------------- if-stats-snmp-multi.py claims

\* The last step was a run_cycle that returned (an exception ends main).
MtCompleted == program = "multi" /\ mt_last # "" /\ mt_pc # 0

\* What previous_values of collector c retains for interface ifn, keyed by
\* metric.
MtRetained(c, ifn) ==
  [k \in {m \in MtMetrics : MtKey[ifn][m] \in DOMAIN mt_previous_values[c]} |->
     mt_previous_values[c][MtKey[ifn][k]]]

\* C2: after every completed run_cycle, what previous_values retains for
\* each interface of the collector is exactly the snapshot collect computed
\* in that cycle, so a metric absent from the snapshot is absent from the
\* store.
C2_RetainedEqualsSnapshot ==
  MtCompleted =>
    \A ifn \in MtIfNames(mt_last) :
      MtRetained(mt_last, ifn) = mt_data[mt_last][ifn]


\* ------------------------------------------ ifaces-stats-snmp-ipv6.py claims

\* A generate_updates call has completed (its list always holds last-update).
V6Called == program = "ipv6" /\ v6_updates # << >>

\* The keys of gnmipath_map that have an object in the list returned by the
\* last call, for one interface.
V6Emitted(if_name) ==
  {V6_GNMIPATH_MAP[n].key :
     n \in {m \in DOMAIN V6_GNMIPATH_MAP :
              \E i \in DOMAIN v6_updates :
                v6_updates[i].updates[1].Path =
                  V6Paths[if_name][V6_GNMIPATH_MAP[m].gnmipath]}}

\* The last call was the first cycle of the interface.
V6FirstCycle(if_name) == V6Called /\ v6_polled_before[if_name] = << >>

\* C5 as stated: the first cycle of an interface emits an update for every key
\* of the snapshot, which holds every key of STD_OIDS plus in-pkts and
\* out-pkts.
C5_FirstCycleEmitsEveryKey ==
  \A if_name \in Range(V6_INTERFACES) :
    V6FirstCycle(if_name) =>
      /\ DOMAIN v6_current[if_name] = V6Keys
      /\ \A k \in DOMAIN v6_current[if_name] : k \in V6Emitted(if_name)

\* C5 amended: the first cycle of an interface emits an update for every key
\* of the snapshot except carrier-transitions, which gnmipath_map leaves out
\* and which is therefore never emitted.
C5_FirstCycleEmitsEveryMappedKey ==
  \A if_name \in Range(V6_INTERFACES) :
    V6FirstCycle(if_name) =>
      /\ DOMAIN v6_current[if_name] = V6Keys
      /\ \A k \in DOMAIN v6_current[if_name] \ {"carrier-transitions"} :
           k \in V6Emitted(if_name)
      /\ "carrier-transitions" \notin V6Emitted(if_name)

\* C5 witness: a first cycle that polled a non-zero and a zero counter and
\* emitted both, but not carrier-transitions.
C5_Witness ==
  /\ V6FirstCycle("Ethernet1")
  /\ v6_current["Ethernet1"]["in-unicast-pkts"] = "1"
  /\ v6_current["Ethernet1"]["in-errors"] = "0"
  /\ {"in-unicast-pkts", "in-errors", "in-pkts"} \subseteq V6Emitted("Ethernet1")
  /\ "carrier-transitions" \notin V6Emitted("Ethernet1")

\* int() of a snapshot value.
V6Int(snapshot, k) == IntOf[snapshot[k]]

\* C7 as stated: in every snapshot in-pkts is the sum of in-unicast-pkts,
\* in-multicast-pkts and in-broadcast-pkts, and out-pkts the sum of the three
\* out-* counters.
C7_PktsAreSums ==
  V6Called =>
    \A if_name \in Range(V6_INTERFACES) :
      LET d == v6_current[if_name]
      IN  /\ V6Int(d, "in-pkts") = V6Int(d, "in-unicast-pkts")
               + V6Int(d, "in-multicast-pkts") + V6Int(d, "in-broadcast-pkts")
          /\ V6Int(d, "out-pkts") = V6Int(d, "out-unicast-pkts")
               + V6Int(d, "out-multicast-pkts") + V6Int(d, "out-broadcast-pkts")

\* What the snapshot holds for an OID the agent answered with a.
V6Polled(a) == IF a \in NoValue THEN "0" ELSE a.value

\* C7 amended: in every snapshot in-pkts is the polled value of the Arista
\* in-pkts-ipv6 OID of the interface and out-pkts that of out-pkts-ipv6 ("0"
\* when the get fails or has no value); neither is computed from the
\* unicast, multicast and broadcast counters.
C7_PktsArePolledIPv6 ==
  V6Called =>
    \A if_name \in Range(V6_INTERFACES) :
      /\ v6_current[if_name]["in-pkts"] =
           V6Polled(v6_answers[if_name]["in-pkts-ipv6"])
      /\ v6_current[if_name]["out-pkts"] =
           V6Polled(v6_answers[if_name]["out-pkts-ipv6"])

\* C7 witness: a snapshot whose in-pkts is the polled IPv6 counter and is not
\* the sum of the three in-* counters.
C7_Witness ==
  /\ V6Called
  /\ v6_answers["Ethernet1"]["in-pkts-ipv6"] = Answer("1")
  /\ v6_current["Ethernet1"]["in-pkts"] = "1"
  /\ v6_current["Ethernet1"]["in-unicast-pkts"] = "0"
  /\ v6_current["Ethernet1"]["in-multicast-pkts"] = "0"
  /\ v6_current["Ethernet1"]["in-broadcast-pkts"] = "0"


\* ---------------------------------- if-stats-snmp-get-optimizado.py claims

\* The last cycle was a successful one: collect_single_request returned data.
OptSucceeded == program = "optimizado" /\ opt_data # << >>

\* The prefixed objects of one interface in the output of the last cycle.
OptBatches(if_name) ==
  {n \in DOMAIN opt_lines :
     /\ "prefix" \in DOMAIN opt_lines[n]
     /\ opt_lines[n].prefix = OptPrefix[if_name]}

\* The metrics with an update in them.
OptEmitted(if_name) ==
  UNION {{opt_lines[n].updates[i].Path : i \in DOMAIN opt_lines[n].updates}
           : n \in OptBatches(if_name)}

\* The metric of the interface went from a to b in the last cycle.
OptWent(if_name, m, a, b) ==
  /\ OptKey[if_name][m] \in DOMAIN opt_before
  /\ opt_before[OptKey[if_name][m]] = a
  /\ m \in DOMAIN opt_data[if_name]
  /\ opt_data[if_name][m] = b

\* C9: under the threshold max(1000, 1% of previous), a metric outside the
\* always-emit set that goes from 1,000,000 to 1,000,500 has no update, and
\* one that goes from 1,000,000 to 1,020,000 has one.
C9_SmallChangeSuppressed ==
  OptSucceeded =>
    \A if_name \in OptIfNames : \A m \in OptMetrics \ OPT_KEY_METRICS :
      /\ OptWent(if_name, m, 1000000, 1000500) => m \notin OptEmitted(if_name)
      /\ OptWent(if_name, m, 1000000, 1020000) => m \in OptEmitted(if_name)

\* C10: every successful cycle has, for every interface, an update for each
\* key metric of the snapshot, changed or not, and so exactly one prefixed
\* object per interface.
C10_KeyMetricsAlwaysEmitted ==
  OptSucceeded =>
    \A if_name \in OptIfNames :
      /\ \A k \in OPT_KEY_METRICS \cap DOMAIN opt_data[if_name] :
           k \in OptEmitted(if_name)
      /\ Cardinality(OptBatches(if_name)) = 1

\* C10 witness: a successful cycle that found every value of the snapshot in
\* the cache already; the object of Ethernet2 carries the four key metrics
\* and nothing else.
C10_Witness ==
  /\ OptSucceeded
  /\ opt_before # << >>
  /\ opt_previous_values = opt_before
  /\ opt_data["Ethernet2"]["in-octets"] = 1
  /\ OptEmitted("Ethernet2") = OPT_KEY_METRICS
  /\ Cardinality(OptBatches("Ethernet1")) = 1


\* ------------------------------------------- claims about several scripts

\* in-pkts and out-pkts of a snapshot are the sums of the three counters of
\* their direction, a counter the snapshot lacks counting as 0.
TotalsAreSums(d) ==
  /\ {"in-pkts", "out-pkts"} \subseteq DOMAIN d
  /\ d["in-pkts"] = Get(d, "in-unicast-pkts", 0) + Get(d, "in-multicast-pkts", 0)
                    + Get(d, "in-broadcast-pkts", 0)
  /\ d["out-pkts"] = Get(d, "out-unicast-pkts", 0) + Get(d, "out-multicast-pkts", 0)
                     + Get(d, "out-broadcast-pkts", 0)

\* C6: in every snapshot of the single-request collector and of the
\* multi-target collector, for every interface, in-pkts is in-unicast-pkts +
\* in-multicast-pkts + in-broadcast-pkts and out-pkts the sum of the three
\* out-* counters, an input missing from the snapshot contributing 0.
C6_TotalsAreSums ==
  /\ OptSucceeded => \A if_name \in DOMAIN opt_data : TotalsAreSums(opt_data[if_name])
  /\ (program = "multi" /\ mt_last # "") =>
       \A ifn \in MtIfNames(mt_last) : TotalsAreSums(mt_data[mt_last][ifn])

\* C6 witness, multi-target collector: a snapshot that lacks in-unicast-pkts
\* (NOSUCHINSTANCE) and has in-multicast-pkts = 1, so in-pkts = 1.
C6_WitnessMulti ==
  /\ program = "multi"
  /\ mt_last = "edge-router"
  /\ "in-unicast-pkts" \notin DOMAIN mt_data["edge-router"]["Ethernet1"]
  /\ Get(mt_data["edge-router"]["Ethernet1"], "in-multicast-pkts", 0) = 1
  /\ mt_data["edge-router"]["Ethernet1"]["in-pkts"] = 1

\* C6 witness, single-request collector: 1,000,000 unicast and 1 multicast
\* packets give in-pkts = 1,000,001.
C6_WitnessOpt ==
  /\ OptSucceeded
  /\ opt_data["Ethernet1"]["in-unicast-pkts"] = 1000000
  /\ opt_data["Ethernet1"]["in-multicast-pkts"] = 1
  /\ opt_data["Ethernet1"]["in-pkts"] = 1000001

\* C6 witness: a behaviour is a run of one script, so either case.
C6_Witness == C6_WitnessMulti \/ C6_WitnessOpt

\* The objects of the last generate_gnmi call that carry the prefix of ifn.
MtBatches(ifn) ==
  {n \in DOMAIN mt_lines : mt_lines[n].prefix = MtPrefix[ifn]}

\* The objects of the last ipv6 generate_updates call whose update is on a
\* path of the interface.
V6Objects(if_name) ==
  {i \in DOMAIN v6_updates :
     \E leaf \in DOMAIN V6Paths[if_name] :
       v6_updates[i].updates[1].Path = V6Paths[if_name][leaf]}

\* C4: when a cycle polls for an interface exactly the values the cycle
\* before it polled, it emits no metric update for that interface: v3 and
\* ipv6 return the last-update object alone, the multi-target collector
\* returns no object for the interface.
C4_IdenticalPollEmitsNothing ==
  /\ (V3Called /\ v3_polled_before # V3NoneMap /\ v3_current = v3_polled_before)
       => (V3Out = {} /\ Len(v3_updates) = 1)
  /\ (program = "multi" /\ mt_last # "") =>
       \A ifn \in MtIfNames(mt_last) :
         mt_data[mt_last][ifn] = mt_before[ifn] => MtBatches(ifn) = {}
  /\ V6Called =>
       \A if_name \in Range(V6_INTERFACES) :
         (v6_polled_before[if_name] # << >>
          /\ v6_current[if_name] = v6_polled_before[if_name])
           => (V6Emitted(if_name) = {} /\ Cardinality(V6Objects(if_name)) = 1)

\* C4 witness, v3: two cycles in a row polled in-octets = 1.
C4_WitnessV3 ==
  /\ V3Called
  /\ v3_current = v3_polled_before
  /\ v3_current["in-octets"] = "1"
  /\ Len(v3_updates) = 1

\* C4 witness, multi-target: two cycles in a row polled the same non-zero
\* snapshot of Ethernet1.
C4_WitnessMulti ==
  /\ program = "multi"
  /\ mt_last = "edge-router"
  /\ mt_data["edge-router"]["Ethernet1"] = mt_before["Ethernet1"]
  /\ Get(mt_data["edge-router"]["Ethernet1"], "in-unicast-pkts", 0) = 1
  /\ mt_lines = << >>

\* C4 witness, ipv6: Ethernet1 polled the same non-zero snapshot twice and
\* has its last-update alone, while Ethernet2 changed and has an update.
C4_WitnessV6 ==
  /\ V6Called
  /\ v6_current["Ethernet1"] = v6_polled_before["Ethernet1"]
  /\ v6_current["Ethernet1"]["in-unicast-pkts"] = "1"
  /\ V6Emitted("Ethernet1") = {}
  /\ V6Emitted("Ethernet2") = {"in-octets"}

\* C4 witness: a behaviour is a run of one script, so any of the three.
C4_Witness == C4_WitnessV3 \/ C4_WitnessMulti \/ C4_WitnessV6


\* ======================================================================
\* Claims about the shape of what is emitted
\* ======================================================================

\* The objects of a list that carry an update on the given path.
BatchesOn(batches, path) ==
  {i \in DOMAIN batches :
     \E j \in DOMAIN batches[i].updates : batches[i].updates[j].Path = path}

\* Exactly one object of the list is on the path; it has a single update,
\* keyed by the path, no prefix, and its value is the timestamp ts_ns.
OneLastUpdate(batches, path, ts_ns) ==
  /\ Cardinality(BatchesOn(batches, path)) = 1
  /\ \A i \in BatchesOn(batches, path) :
       /\ Len(batches[i].updates) = 1
       /\ "prefix" \notin DOMAIN batches[i]
       /\ batches[i].updates[1].values.key = path
       /\ batches[i].updates[1].values.val = ts_ns
       /\ batches[i].timestamp = ts_ns

\* What run of v3 writes for the list the last generate_updates call returned.
V3Written == v3_objects(v3_updates, v3_ts)

\* A generate_updates call of the dual monitor returned for the interface.
DuReturned(if_name) == program = "dual" /\ du_updates[if_name] # << >>

C11_WitnessDual ==
  /\ program = "dual" /\ du_written
  /\ du_before["Ethernet1"] # << >>
  /\ DOMAIN du_counters["Ethernet1"] = {"in-multicast-pkts", "in-pkts"}
  /\ Len(du_updates["Ethernet1"]) = 2

\* A v3 cycle that emits no leaf.
C11_WitnessV3 == V3Called /\ V3Out = {} /\ Len(V3Written) = 1

\* An ipv6 cycle that emits metrics for one interface and none for the other.
C11_WitnessV6 ==
  /\ V6Called
  /\ V6Emitted("Ethernet1") # {}
  /\ V6Emitted("Ethernet2") = {}

DuWritten ==
  IF program = "dual" /\ du_written THEN du_all_updates(du_updates) ELSE << >>

\* The interface and the leaf a batch of the dual monitor starts with: read
\* off the prefix and the bare name, or off the full path.
DuBatchIf(b) ==
  IF "prefix" \in DOMAIN b
  THEN CHOOSE n \in DOMAIN DU_IF_NAMES :
         du_get_path_prefix[DU_IF_NAMES[n]] = b.prefix
  ELSE CHOOSE n \in DOMAIN DU_IF_NAMES :
         \E leaf \in DOMAIN DuFullPath[DU_IF_NAMES[n]] :
           DuFullPath[DU_IF_NAMES[n]][leaf] = b.updates[1].Path

DuBatchLeaf(b) ==
  IF "prefix" \in DOMAIN b THEN b.updates[1].Path
  ELSE CHOOSE leaf \in DOMAIN DuFullPath["Ethernet1"] :
         \E if_name \in DuIfNames : DuFullPath[if_name][leaf] = b.updates[1].Path

\* The place of a leaf in the order the claim gives: last-update,
\* carrier-transitions, error/discard, broadcast, inbound, outbound.
DuRank(leaf) ==
  IF leaf = "last-update" THEN 1
  ELSE IF leaf = "carrier-transitions" THEN 2
  ELSE IF leaf \in Range(DU_ERROR_BLOCK) THEN 3
  ELSE IF leaf \in Range(DU_BC_BLOCK) THEN 4
  ELSE IF leaf \in Range(DU_IN_BLOCK) THEN 5
  ELSE 6

\* C12: in the list one iteration of the dual monitor writes, every batch
\* of Ethernet1 precedes every batch of Ethernet2, the batches of one
\* interface come in the order last-update, carrier-transitions,
\* error/discard group, broadcast group, inbound group, outbound group with
\* at most one batch of each, and each monitor's batches are a function of
\* the counters collect_counters returned and of ts_ns alone.
C12_FixedBatchOrder ==
  /\ \A i, j \in DOMAIN DuWritten :
       i < j =>
         \/ DuBatchIf(DuWritten[i]) < DuBatchIf(DuWritten[j])
         \/ /\ DuBatchIf(DuWritten[i]) = DuBatchIf(DuWritten[j])
            /\ DuRank(DuBatchLeaf(DuWritten[i])) < DuRank(DuBatchLeaf(DuWritten[j]))
  /\ \A if_name \in DuIfNames :
       DuReturned(if_name) =>
         du_updates[if_name] =
           du_generate_updates(if_name, du_counters[if_name], du_ts)

\* An iteration that writes all six batches for Ethernet2 and, for
\* Ethernet1, last-update, the broadcast group and the inbound group only.
C12_Witness ==
  /\ Len(DuWritten) = 9
  /\ Len(du_updates["Ethernet1"]) = 3
  /\ DOMAIN du_counters["Ethernet1"] =
       {"in-broadcast-pkts", "in-multicast-pkts", "in-pkts"}


\* The named groups of the grouping scripts, as lists of metric names.
NamedGroups == {DU_ERROR_BLOCK, DU_BC_BLOCK, DU_IN_BLOCK, DU_OUT_BLOCK}

\* The members of a group among the emitted counters, in the group's order.
Emitted(group, counters) == SelectSeq(group, LAMBDA k : k \in DOMAIN counters)

\* The batches of a list that report a member of the group, by bare name or
\* by full path.
BatchesOfGroup(batches, group, prefix) ==
  {i \in DOMAIN batches :
     \E j \in DOMAIN batches[i].updates, k \in Range(group) :
       batches[i].updates[j].Path \in {k, prefix \o "/" \o k}}

\* The batch has the prefix and one update per name of block, addressed by
\* the bare name, in that order.
IsPrefixed(b, prefix, block) ==
  /\ "prefix" \in DOMAIN b
  /\ b.prefix = prefix
  /\ [j \in DOMAIN b.updates |-> b.updates[j].Path] = block

\* The batch has no prefix and a single update addressed by the full path.
IsPerLeaf(b, prefix, leaf) ==
  /\ "prefix" \notin DOMAIN b
  /\ Len(b.updates) = 1
  /\ b.updates[1].Path = prefix \o "/" \o leaf

\* The group's emitted part is the multicast counter alone.
LoneMulticast(block) ==
  block \in {<< "in-multicast-pkts" >>, << "out-multicast-pkts" >>}

\* C13 as stated, for one list of batches and the counters it was built
\* from.
GroupsPrefixed(batches, counters, prefix) ==
  /\ \A group \in NamedGroups :
       Emitted(group, counters) # << >> =>
         /\ Cardinality(BatchesOfGroup(batches, group, prefix)) = 1
         /\ \A i \in BatchesOfGroup(batches, group, prefix) :
              IsPrefixed(batches[i], prefix, Emitted(group, counters))
  /\ \A i \in DOMAIN batches :
       "prefix" \notin DOMAIN batches[i] =>
         \E leaf \in {"carrier-transitions", "last-update"} :
           IsPerLeaf(batches[i], prefix, leaf)

\* C13 amended, for one list of batches and the counters it was built from.
GroupsPrefixedButLoneMulticast(batches, counters, prefix) ==
  /\ \A group \in NamedGroups :
       Emitted(group, counters) # << >> =>
         /\ Cardinality(BatchesOfGroup(batches, group, prefix)) = 1
         /\ \A i \in BatchesOfGroup(batches, group, prefix) :
              IF LoneMulticast(Emitted(group, counters))
              THEN IsPerLeaf(batches[i], prefix, Emitted(group, counters)[1])
              ELSE IsPrefixed(batches[i], prefix, Emitted(group, counters))
  /\ \A i \in DOMAIN batches :
       "prefix" \notin DOMAIN batches[i] =>
         \/ \E leaf \in {"carrier-transitions", "last-update"} :
              IsPerLeaf(batches[i], prefix, leaf)
         \/ \E group \in NamedGroups :
              /\ LoneMulticast(Emitted(group, counters))
              /\ IsPerLeaf(batches[i], prefix, Emitted(group, counters)[1])

\* An iteration of v2 got its counters and wrote its objects.
V2Wrote == program = "v2" /\ v2_pc = "loop" /\ v2_written # << >>

\* C13 as stated: in the dual and the v2 script every non-empty named group
\* of the emitted counters becomes exactly one batch with the interface's
\* counter subtree as prefix and bare metric names as paths, and only
\* carrier-transitions and last-update go out per leaf without prefix.
C13_GroupsPrefixed ==
  /\ \A if_name \in DuIfNames :
       DuReturned(if_name) =>
         GroupsPrefixed(du_updates[if_name], du_counters[if_name],
                        du_get_path_prefix[if_name])
  /\ V2Wrote => GroupsPrefixed(v2_written, v2_counters, V2_PREFIX)

\* C13 amended: as stated, except that an inbound (outbound) group whose
\* only emitted metric is in-multicast-pkts (out-multicast-pkts) becomes one
\* per-leaf batch on the full path without prefix.
C13_GroupsPrefixedButLoneMulticast ==
  /\ \A if_name \in DuIfNames :
       DuReturned(if_name) =>
         GroupsPrefixedButLoneMulticast(du_updates[if_name],
                                        du_counters[if_name],
                                        du_get_path_prefix[if_name])
  /\ V2Wrote =>
       GroupsPrefixedButLoneMulticast(v2_written, v2_counters, V2_PREFIX)

\* A cycle of the dual monitor in which in-multicast-pkts is the only
\* inbound counter emitted, next to a prefixed broadcast group.
C13_WitnessDual ==
  /\ DuReturned("Ethernet1")
  /\ DOMAIN du_counters["Ethernet1"] = {"in-multicast-pkts", "in-broadcast-pkts"}
  /\ Len(du_updates["Ethernet1"]) = 3
  /\ DuReturned("Ethernet2")
  /\ Len(du_updates["Ethernet2"]) = 6

\* The same cycle in v2, with the error group emitted as well.
C13_WitnessV2 ==
  /\ V2Wrote
  /\ DOMAIN v2_counters =
       {"in-multicast-pkts", "in-broadcast-pkts", "in-errors"}
  /\ Len(v2_written) = 4

C13_Witness == C13_WitnessDual \/ C13_WitnessV2


\* ======================================================================
\* Claims about if-stats-snmp-get.py
\* ======================================================================

\* The object reports the metric of the interface: under the interface's
\* prefix by its bare name, or without prefix by its full path.
GtReports(b, if_name, metric) ==
  /\ "updates" \in DOMAIN b
  /\ IF "prefix" \in DOMAIN b
     THEN /\ b.prefix = GtPrefix[if_name]
          /\ \E j \in DOMAIN b.updates : b.updates[j].Path = metric
     ELSE \E j \in DOMAIN b.updates :
            b.updates[j].Path = GtPrefix[if_name] \o "/" \o metric

\* C14: the metrics generate_gnmi_objects emits for an interface in one
\* cycle are partitioned over the batches: every metric of the snapshot is
\* reported in at most one object of the list, never both in an individual
\* per-leaf object and in a prefixed group object.
C14_EachMetricInOneBatch ==
  program = "get" =>
    \A if_name \in GtIfNames, metric \in GtMetrics :
      Cardinality({i \in DOMAIN gt_objects :
                     GtReports(gt_objects[i], if_name, metric)}) <= 1


\* ======================================================================
\* Claims about the updates of one batch
\* ======================================================================

\* The batch holds at least one update and no two updates on one Path.
WellFormedBatch(b) ==
  /\ Len(b.updates) >= 1
  /\ \A i, j \in DOMAIN b.updates :
       i # j => b.updates[i].Path # b.updates[j].Path

\* C15: in every batch generate_updates of the dual monitor and
\* generate_compact_gnmi of the single-request collector produce, the Paths
\* of the updates are pairwise distinct, and every batch that is not a
\* sync marker holds at least one update.
C15_DistinctPathsNonEmpty ==
  /\ program = "dual" =>
       \A if_name \in DuIfNames :
         \A n \in DOMAIN du_updates[if_name] :
           WellFormedBatch(du_updates[if_name][n])
  /\ program = "optimizado" =>
       \A n \in DOMAIN opt_lines :
         "sync_response" \notin DOMAIN opt_lines[n]
           => WellFormedBatch(opt_lines[n])

\* A cycle of the dual monitor with a batch of four updates.
C15_WitnessDual ==
  /\ program = "dual"
  /\ \E n \in DOMAIN du_updates["Ethernet1"] :
       Len(du_updates["Ethernet1"][n].updates) = 4

\* A cycle of the single-request collector with a batch of several updates.
C15_WitnessOpt ==
  /\ program = "optimizado"
  /\ \E n \in DOMAIN opt_lines :
       /\ "updates" \in DOMAIN opt_lines[n]
       /\ Len(opt_lines[n].updates) > 1

C15_Witness == C15_WitnessDual \/ C15_WitnessOpt


\* ======================================================================
\* Claims about what run of ifaces-stats-snmp-v3.py writes
\* ======================================================================

\* The objects written for the leaf: those with an update on its full path.
V3ObjectsOf(leaf) == BatchesOn(V3Written, V3Paths[v3_if_name][leaf])

\* C16: every object run writes for a monitor's list holds exactly one
\* update, has no prefix, and its Path is the full path
\* interfaces/interface[name=<if>]/state/counters/<leaf>; each leaf emitted
\* in the cycle has exactly one such object.
C16_OneObjectPerLeaf ==
  V3Called =>
    /\ \A n \in DOMAIN V3Written :
         /\ Len(V3Written[n].updates) = 1
         /\ "prefix" \notin DOMAIN V3Written[n]
         /\ \E leaf \in V3Leaves \cup {"last-update"} :
              V3Written[n].updates[1].Path =
                "interfaces/interface[name=" \o v3_if_name
                  \o "]/state/counters/" \o leaf
         /\ V3Written[n].timestamp = v3_ts
    /\ \A leaf \in V3Out : Cardinality(V3ObjectsOf(leaf)) = 1
    /\ Len(V3Written) = Cardinality(V3Out) + 1

\* A cycle that emits several leaves.
C16_Witness == V3Called /\ Cardinality(V3Out) >= 2 /\ Len(V3Written) >= 3


\* ======================================================================
\* Claims about collect_counters of the grouping scripts
\* ======================================================================

\* The keys of the new snapshot whose value differs from the retained one
\* (a key the retained snapshot lacks differs).
Differing(raw, before) ==
  {k \in DOMAIN raw : k \notin DOMAIN before \/ raw[k] # before[k]}

\* What collect_counters returned, given the snapshot it retained and the
\* one it found: the whole snapshot when nothing differs, else the differing
\* keys with their new values; never nothing.
ChangedOrAll(counters, raw, before) ==
  /\ DOMAIN counters # {}
  /\ Differing(raw, before) = {} =>
       /\ counters = raw
       /\ DOMAIN counters = DuKeys \cup {"in-pkts", "out-pkts"}
  /\ Differing(raw, before) # {} =>
       /\ DOMAIN counters = Differing(raw, before)
       /\ \A k \in DOMAIN counters : counters[k] = raw[k]

\* C17: a collect_counters call of the v2 or the dual monitor in which no
\* metric differs from the retained snapshot returns the full snapshot (all
\* polled keys plus in-pkts and out-pkts); one in which some metric differs
\* returns exactly the differing keys; the returned set is never empty.
C17_ChangedOrAll ==
  /\ \A if_name \in DuIfNames :
       DuReturned(if_name) =>
         ChangedOrAll(du_counters[if_name], du_prev_counters[if_name],
                      du_before[if_name])
  /\ V2Wrote => ChangedOrAll(v2_counters, v2_prev_counters, v2_before)

\* Cycles of the dual monitor: Ethernet1 polls what it retained, Ethernet2
\* polls one changed counter.
C17_WitnessDual ==
  /\ DuReturned("Ethernet1") /\ DuReturned("Ethernet2")
  /\ du_before["Ethernet1"] # << >>
  /\ du_prev_counters["Ethernet1"] = du_before["Ethernet1"]
  /\ du_before["Ethernet2"] # << >>
  /\ DOMAIN du_counters["Ethernet2"] = {"in-unicast-pkts", "in-pkts"}

\* A cycle of v2 that polls what it retained.
C17_WitnessV2 ==
  /\ V2Wrote
  /\ v2_before # << >>
  /\ v2_prev_counters = v2_before
  /\ Len(v2_written) = 6

C17_Witness == C17_WitnessDual \/ C17_WitnessV2


\* ======================================================================
\* Claims about failed cycles
\* ======================================================================

\* C18: a cycle of the single-request collector whose GetRequest fails
\* (collect_single_request returns no data) is skipped: previous_values and
\* cycle_count keep their values, no batch and no sync marker is generated
\* or handed to the sink, and the collector is still in its polling loop.
C18_FailedCycleSkipped ==
  [][(program = "optimizado" /\ opt_pc = "loop" /\ opt_data' = << >>)
       => /\ opt_previous_values' = opt_previous_values
          /\ opt_cycle_count' = opt_cycle_count
          /\ opt_lines' = << >>
          /\ opt_pc' = "loop"]_vars

\* A failed cycle that follows a completed one.
C18_Witness ==
  /\ program = "optimizado"
  /\ opt_pc = "loop"
  /\ opt_data = << >>
  /\ opt_lines = << >>
  /\ opt_cycle_count >= 1
  /\ opt_previous_values # << >>
  /\ opt_before = opt_previous_values


\* Every session.get of the last collect_counters call for the interface
\* raised.
DuAllRaised(if_name) ==
  /\ program = "dual"
  /\ du_answers[if_name] = [k \in DuKeys |-> Raised]

\* C19: when every session.get of a cycle raises for an interface, the v3
\* and the dual monitor leave the snapshot they retained for the interface
\* as it was and emit no metric batch for it in that cycle (the list holds
\* at most the last-update object).
C19_FailedAcquisitionSkipped ==
  /\ (V3Called /\ v3_all_raised)
       => /\ v3_prev_values = v3_polled_before
          /\ V3Out = {}
  /\ \A if_name \in DuIfNames :
       DuAllRaised(if_name)
         => /\ du_prev_counters[if_name] = du_before[if_name]
            /\ Len(du_updates[if_name]) <= 1


\* C20: an error raised for one target during run_cycle (session.get or save
\* raising) does not terminate the multi-target collector: main stays in its
\* loop over the collectors, so the remaining targets are polled in that
\* cycle and every target is polled again in later cycles.
C20_ErrorsDoNotTerminate ==
  program = "multi" => mt_pc \in DOMAIN MT_NAMES


\* The last collect_counters call for the interface polled a packet counter
\* whose value int() cannot parse.
DuUnparsed(answers) ==
  /\ answers # << >>
  /\ du_int_raises(du_polled(answers))

\* The sum of the fields, a value that is no integer counted as 0.
CoercedSum(polled, fields) ==
  SumSeq([i \in DOMAIN fields |->
            IF polled[fields[i]] \in DOMAIN IntOf
            THEN IntOf[polled[fields[i]]] ELSE 0])

\* The snapshot was advanced to the one polled, in-pkts and out-pkts being
\* the sums with the unparsable value as 0.
AdvancedCoerced(prev_counters, answers) ==
  /\ prev_counters # << >>
  /\ \A k \in DuKeys : prev_counters[k] = du_polled(answers)[k]
  /\ prev_counters["in-pkts"] =
       ToString(CoercedSum(du_polled(answers), DU_IN_FIELDS))
  /\ prev_counters["out-pkts"] =
       ToString(CoercedSum(du_polled(answers), DU_OUT_FIELDS))

\* C21: in collect_counters of the v2 and of the dual script, a unicast,
\* multicast or broadcast packet counter whose raw value is no integer
\* counts as 0 in the derived sum: the cycle completes, the retained
\* snapshot is advanced and the batches are written.
C21_UnparsableCoercedToZero ==
  /\ (program = "v2" /\ DuUnparsed(v2_answers))
       => /\ v2_written # << >>
          /\ AdvancedCoerced(v2_prev_counters, v2_answers)
  /\ \A if_name \in DuIfNames :
       (program = "dual" /\ DuUnparsed(du_answers[if_name]))
         => /\ du_written
            /\ du_updates[if_name] # << >>
            /\ AdvancedCoerced(du_prev_counters[if_name], du_answers[if_name])


\* A result of session.get that is empty, NOSUCHINSTANCE or no integer.
Malformed(value) ==
  value = "" \/ value = "NOSUCHINSTANCE" \/ value \notin DOMAIN IntOf

\* C22: in process_results of the optimizado collector a result that is
\* empty, NOSUCHINSTANCE or not parseable as an integer is stored as 0 for
\* its metric: nothing is raised, the metric stays in the snapshot of its
\* interface and collect_single_request returns the snapshot, so the cycle
\* is not skipped.
C22_MalformedStoredAsZero ==
  (program = "process_results" /\ pr_results # << >>)
    => /\ pr_data # << >>
       /\ \A n \in DOMAIN pr_results :
            LET oid == opt_build_single_oid_list[n]
            IN  Malformed(pr_results[n])
                  => /\ opt_metric_name(oid) \in DOMAIN pr_data[opt_if_name(oid)]
                     /\ pr_data[opt_if_name(oid)][opt_metric_name(oid)] = 0

\* An empty, a NOSUCHINSTANCE and a non-integer result in one request.
C22_Witness ==
  /\ program = "process_results"
  /\ pr_results # << >>
  /\ \E a, b, c \in DOMAIN pr_results :
       /\ pr_results[a] = ""
       /\ pr_results[b] = "NOSUCHINSTANCE"
       /\ pr_results[c] = "NOSUCHOBJECT"
  /\ pr_data["Ethernet1"]["in-octets"] = 0


\* The objects of the last cycle that are notification batches.
GtBatches == {i \in DOMAIN gt_objects : "updates" \in DOMAIN gt_objects[i]}

\* The batches of the last cycle that report a metric of the interface.
GtBatchesOf(if_name) ==
  {i \in GtBatches : \E m \in GtMetrics : GtReports(gt_objects[i], if_name, m)}

\* The batch is the prefixed object of the main metrics.
GtIsMain(b) ==
  "prefix" \in DOMAIN b /\ b.updates[1].Path \in Range(GT_MAIN_METRICS)

C24_TimestampsNonDecreasing ==
  program = "get"
    => \A c \in DOMAIN gt_stamps :
         (IF c = 1 THEN gt_stamp_before ELSE gt_stamps[c - 1].timestamp)
           <= gt_stamps[c].timestamp


\* The sync-response markers among the objects of the last cycle.
GtSyncs == {i \in DOMAIN gt_objects : "sync_response" \in DOMAIN gt_objects[i]}

\* C30: generate_gnmi_objects appends the sync-response marker exactly once
\* every 10 cycles that collected data: the output of the 10th, 20th, ...
\* such cycle holds one marker, the output of every other cycle none.
C30_SyncEveryTenCycles ==
  (program = "get" /\ gt_data # << >>)
    => Cardinality(GtSyncs) = (IF gt_cycles % 10 = 0 THEN 1 ELSE 0)


\* The sync-response markers among the objects of the last cycle.
OptSyncs == {i \in DOMAIN opt_lines : "sync_response" \in DOMAIN opt_lines[i]}

\* C25: the output of a successful cycle of the optimizado collector holds
\* the sync-response marker exactly when cycle_count, the successful cycles
\* so far with this one, is a multiple of 100; when the marker is there it
\* is the only one and the last object of the output.
C25_SyncEveryHundredthCycle ==
  OptSucceeded
    => /\ OptSyncs # {} <=> opt_cycle_count % 100 = 0
       /\ OptSyncs \subseteq {Len(opt_lines)}

\* The hundredth cycle wrote the batches of both interfaces and the marker.
C25_Witness ==
  /\ OptSucceeded
  /\ opt_cycle_count = 100
  /\ Len(opt_lines) = 3
  /\ opt_lines[3] = OptSync


\* C26: cycle_count of the optimizado collector goes up by exactly 1 in
\* every cycle whose collect_single_request returns data and stays as it is
\* in every cycle that fails (and in every other step), so that, starting
\* at 0, it is the number of successful cycles.
C26_CountsSuccessfulCycles ==
  [][program = "optimizado"
       => opt_cycle_count' =
            opt_cycle_count
              + (IF opt_pc = "loop" /\ opt_data' # << >> THEN 1 ELSE 0)]_vars

\* The second successful cycle.
C26_Witness ==
  /\ OptSucceeded
  /\ opt_cycle_count = 2
  /\ opt_before # << >>


\* C27: a KeyboardInterrupt that arrives while an iteration of the v2
\* script's run is in progress takes effect at the iteration's boundary:
\* of the batches of an iteration either all are written or none, never a
\* proper prefix of them.
C27_IterationWrittenWhole ==
  (program = "v2" /\ v2_counters # << >>)
    => \/ v2_written = << >>
       \/ v2_written = v2_objects(v2_counters, v2_ts)


\* The entries of previous_values that belong to the interface.
OptOwn(previous_values, if_name) ==
  [key \in {k \in DOMAIN previous_values : OptKeyIf[k] = if_name} |->
     previous_values[key]]

\* The updates the last cycle of the optimizado collector wrote for the
\* interface, << >> when it wrote no batch for it.
OptUpdatesOf(if_name) ==
  LET own == {i \in DOMAIN opt_lines :
                /\ "prefix" \in DOMAIN opt_lines[i]
                /\ opt_lines[i].prefix = OptPrefix[if_name]}
  IN  IF own = {} THEN << >> ELSE opt_lines[CHOOSE i \in own : TRUE].updates

\* C28: the interfaces are independent of each other in SNMPDualMonitor and
\* in generate_compact_gnmi of the optimizado collector. What is retained
\* for an interface after a cycle, and the metrics emitted for it, are those
\* computed from its own polled values and its own retained values alone;
\* the retained values of an interface whose call raised are as they were,
\* whatever was done for the other interface.
C28_InterfacesIndependent ==
  /\ program = "dual"
       => \A if_name \in DuIfNames :
            du_answers[if_name] # << >>
              => IF DuUnparsed(du_answers[if_name])
                 THEN /\ du_prev_counters[if_name] = du_before[if_name]
                      /\ du_updates[if_name] = << >>
                 ELSE LET raw == du_raw(du_polled(du_answers[if_name]))
                      IN  /\ du_prev_counters[if_name] = raw
                          /\ du_updates[if_name] =
                               du_generate_updates(if_name,
                                 du_collect_counters(raw, du_before[if_name]),
                                 du_ts)
  /\ OptSucceeded
       => \A if_name \in OptIfNames :
            LET own == OptOwn(opt_before, if_name)
                data == [i \in {if_name} |-> opt_data[if_name]]
            IN  /\ OptUpdatesOf(if_name) =
                     opt_updates(own, if_name, opt_data[if_name])
                /\ OptOwn(opt_previous_values, if_name) =
                     opt_next_previous_values(data, own)

\* Ethernet1 changed and Ethernet2 did not, in a cycle after the first:
\* what is retained for Ethernet2 is as it was.
C28_WitnessDual ==
  /\ program = "dual"
  /\ du_written
  /\ du_before["Ethernet2"] # << >>
  /\ du_prev_counters["Ethernet1"] # du_before["Ethernet1"]
  /\ du_prev_counters["Ethernet2"] = du_before["Ethernet2"]

C28_WitnessOpt ==
  /\ OptSucceeded
  /\ opt_before # << >>
  /\ OptOwn(opt_previous_values, "Ethernet1") # OptOwn(opt_before, "Ethernet1")
  /\ OptOwn(opt_previous_values, "Ethernet2") = OptOwn(opt_before, "Ethernet2")
  /\ Len(OptUpdatesOf("Ethernet1")) > Len(OptUpdatesOf("Ethernet2"))

C28_Witness == C28_WitnessDual \/ C28_WitnessOpt


\* The leaves of the last v3 call whose polled value is numerically lower
\* than the value retained before the call.
V3Decreased ==
  {leaf \in V3Leaves :
     /\ v3_polled_before[leaf] \in DOMAIN IntOf
     /\ v3_current[leaf] \in DOMAIN IntOf
     /\ IntOf[v3_current[leaf]] < IntOf[v3_polled_before[leaf]]}

\* The last v3 call emitted the leaf with the value it polled.
V3EmittedNew(leaf) ==
  \E j \in DOMAIN v3_updates :
    v3_updates[j] = Update("interfaces/interface[name=" \o v3_if_name
                             \o "]/state/counters/" \o leaf,
                           v3_current[leaf])

\* The metrics of the interface whose value in the last cycle of the multi
\* collector is lower than in the cycle before, which retained it.
MtDecreased(ifn) ==
  IF ifn \notin DOMAIN mt_before THEN {}
  ELSE {k \in DOMAIN mt_data[mt_last][ifn] \cap DOMAIN mt_before[ifn] :
          mt_data[mt_last][ifn][k] < mt_before[ifn][k]}

\* The multi collector treats every decrease as a change: the metric is in
\* the batch of its interface with the new value, which is retained.
MtDecreaseIsChange ==
  MtCompleted
    => \A ifn \in MtIfNames(mt_last) :
         \A k \in MtDecreased(ifn) :
           /\ \E n \in MtBatches(ifn) :
                \E j \in DOMAIN mt_lines[n].updates :
                  mt_lines[n].updates[j] =
                    [Path |-> k,
                     values |-> [key |-> k, val |-> mt_data[mt_last][ifn][k]]]
           /\ mt_previous_values[mt_last][MtKey[ifn][k]] = mt_data[mt_last][ifn][k]

\* C29 as stated: in generate_gnmi of the multi collector and in
\* generate_updates of v3 a counter whose new value is lower than the one
\* retained is an ordinary change: it is emitted with the new value and the
\* new value is retained.
C29_DecreaseIsOrdinaryChange ==
  /\ MtDecreaseIsChange
  /\ V3Called
       => \A leaf \in V3Decreased :
            /\ V3EmittedNew(leaf)
            /\ v3_prev_values[leaf] = v3_current[leaf]

\* C29, amended: as stated, except that v3 does not emit a discard, error
\* or broadcast counter whose new value is "0"; the new value is retained
\* all the same.
C29_DecreaseIsChangeButZero ==
  /\ MtDecreaseIsChange
  /\ V3Called
       => \A leaf \in V3Decreased :
            /\ v3_prev_values[leaf] = v3_current[leaf]
            /\ IF leaf \in V3ZeroSuppressed /\ v3_current[leaf] = "0"
               THEN ~V3EmittedNew(leaf)
               ELSE V3EmittedNew(leaf)

\* in-octets of Ethernet1 fell from 1 to 0 and was emitted, in-errors fell
\* to 0 in the same call.
C29_WitnessV3 ==
  /\ V3Called
  /\ {"in-octets", "in-errors"} \subseteq V3Decreased
  /\ V3EmittedNew("in-octets")

C29_WitnessMulti ==
  /\ MtCompleted
  /\ \E ifn \in MtIfNames(mt_last) : MtDecreased(ifn) # {}

C29_Witness == C29_WitnessV3 \/ C29_WitnessMulti


\* The last cycle of the optimizado collector emitted the metric for the
\* interface.
OptIncluded(if_name, m) ==
  \E j \in DOMAIN OptUpdatesOf(if_name) : OptUpdatesOf(if_name)[j].Path = m

C32_AdvancedSnapshotIsWritten ==
  \A if_name \in DuIfNames :
    (DuReturned(if_name) /\ du_prev_counters[if_name] # du_before[if_name])
      => du_written


\* C33: after every completed run_cycle of the multi collector, for every
\* interface and metric held in previous_values of a collector, the value
\* of the last update written for the metric is the cached value: applying
\* the written updates in order gives the retained state.
C33_EmittedEqualsCache ==
  (program = "multi" /\ mt_pc # 0)
    => \A c \in Range(MT_NAMES) :
         \A key \in DOMAIN mt_previous_values[c] :
           /\ key \in DOMAIN mt_emitted[c]
           /\ mt_emitted[c][key] = mt_previous_values[c][key]

\* A second cycle of a collector in which a cached metric changed and
\* another one did not.
C33_Witness ==
  /\ MtCompleted
  /\ mt_cycle_count[mt_last] = 2
  /\ \E ifn \in MtIfNames(mt_last) :
       /\ ifn \in DOMAIN mt_before
       /\ MtBatches(ifn) # {}
       /\ \E k \in DOMAIN mt_data[mt_last][ifn] \cap DOMAIN mt_before[ifn] :
            mt_data[mt_last][ifn][k] # mt_before[ifn][k]
       /\ \E k \in DOMAIN mt_data[mt_last][ifn] \cap DOMAIN mt_before[ifn] :
            mt_data[mt_last][ifn][k] = mt_before[ifn][k]


LoopEnded == du_pc = "done" \/ v2_pc = "done"

PassMade == du_passes' # du_passes \/ v2_passes' # v2_passes

C35_LoopEndsOnlyOnInterrupt ==
  /\ [][(du_pc = "loop" /\ du_pc' # "loop") => DuInterrupted]_vars
  /\ [][(v2_pc = "loop" /\ v2_pc' # "loop")
          => (V2InterruptedWaiting \/ V2InterruptedWriting)]_vars
  /\ <>LoopEnded \/ []<><<PassMade>>_vars

\* A pass that completed after a pass that raised.
C35_WitnessDual ==
  program = "dual" /\ du_pc = "loop" /\ du_prev_raised /\ du_written

C35_WitnessV2 ==
  program = "v2" /\ v2_pc = "loop" /\ v2_prev_raised /\ v2_written # << >>

C35_Witness == C35_WitnessDual \/ C35_WitnessV2


\* ---------------------------------------------------------------------
\* C36: main of analyze-pcap.py completes without an unhandled error for
\* every combination of frame counts of the two captures: when at least one
\* capture has frames the comparison table is printed and the CSV is
\* saved, when neither has any the error is reported and main returns.
ApTablePrinted == \E n \in DOMAIN ap_stdout : ap_stdout[n].part = "rows"

C36_MainCompletes ==
  (program = "analyze_pcap" /\ ap_pc # "start")
    => /\ ap_pc = "returned"
       /\ IF ap_snmp.total_frames = 0 /\ ap_gnmi.total_frames = 0
          THEN ap_stdout = << ApPart("error") >> /\ ap_csv = << >>
          ELSE ApTablePrinted /\ ap_csv = << ap_snmp, ap_gnmi >>

====
